---- MODULE Spec2Model ----
(***************************************************************************)
(* Workflow-Viewer renderer (src/src/renderer/src/main.ts): the pointer    *)
(* gesture state machine, the viewport, the selection/overlay side panel   *)
(* and the tab list, as one state machine.                                 *)
(*                                                                         *)
(* Number representation.  Pointer coordinates (clientX, clientY) are      *)
(* whole CSS pixels.  Canvas-space quantities (canvas.ds.offset, node.pos) *)
(* are kept in quarter pixels, and the zoom scale takes the values 1, 2    *)
(* and 4, so that every "pixels / canvas.ds.scale" of the source is exact. *)
(* The canvas element's bounding rect is taken to start at client (0, 0).  *)
(***************************************************************************)
EXTENDS Integers, Sequences, FiniteSets, TLC

(* ------------------------------ bounds -------------------------------- *)
(* how far (px of canvas space) a drag or a zoom may carry the viewport     *)
(* offset, and a drag a node, from where the document was loaded           *)
MaxShift == 2
(* the same, for the specification of the whole gesture state machine, in *)
(* which two pointers, both buttons and the overlay take part             *)
MaxDrift == 1
(* how many tabs are ever created, how many wheel events are delivered *)
MaxOpens == 1
MaxZooms == 1
(* how many tabs are ever created where the tab list itself is studied *)
MaxTabs == 2
(* how many tabs are ever created where closing a tab is studied *)
MaxClosable == 3
(* how many slot types are registered in the type-color registry *)
MaxRegs == 3
(* the most widget values, and the most input or output slots, of a node *)
(* whose parameter boxes are laid out                                    *)
MaxLaidOut == 22
MaxSlots == 2
(* the most widget values of a node *)
MaxWidgets == 4
(* the most chunks of a PNG file *)
MaxChunks == 2
(* the most tick callbacks of the overlay sync loop that are told apart *)
MaxTicks == 2

(* ------------------------- program constants -------------------------- *)
DRAG_THRESHOLD_SQ == 9
NODE_TITLE_HEIGHT == 30
GROUP_DRAG_HANDLE_HEIGHT == 28
MAX_SCALE == 4

Pointers == {1, 2}
Paths == {1}
TabPaths == {1, 2}
Buttons == {0, 1}

Null == [mode |-> "null"]
NoNode == 0

(* ------------------------------ strings ------------------------------- *)
(* A string is the sequence of its character codes (ASCII). *)
IsSpace(c) == c = 32
IsWordChar(c) ==
  (c >= 48 /\ c <= 57) \/ (c >= 65 /\ c <= 90) \/ (c >= 97 /\ c <= 122) \/ c = 95
ToUpperCase(str) ==
  [i \in 1..Len(str) |-> IF str[i] >= 97 /\ str[i] <= 122 THEN str[i] - 32 ELSE str[i]]
ToLowerCase(str) ==
  [i \in 1..Len(str) |-> IF str[i] >= 65 /\ str[i] <= 90 THEN str[i] + 32 ELSE str[i]]

RECURSIVE TrimStart(_)
TrimStart(str) ==
  IF str # <<>> /\ IsSpace(Head(str)) THEN TrimStart(Tail(str)) ELSE str

RECURSIVE TrimEnd(_)
TrimEnd(str) ==
  IF str # <<>> /\ IsSpace(str[Len(str)]) THEN TrimEnd(SubSeq(str, 1, Len(str) - 1))
  ELSE str

Trim(str) == TrimEnd(TrimStart(str))

(* ------------------------ the parameters of a node -------------------- *)
(* Strings are sequences of character codes.  A raw value of a property   *)
(* or of a widget is a string or a number; text holds the characters of   *)
(* a string and the decimal digits of a number.                           *)
StringValue(text) == [type |-> "string", text |-> text]
NumberValue(text) == [type |-> "number", text |-> text]

(* the values of the nodes: "a", "a\nb" and the number 1 *)
ParamValues == {StringValue(<<97>>), StringValue(<<97, 10, 98>>), NumberValue(<<49>>)}

(* 'text', the label of the long text field *)
TEXT_LABEL == <<116, 101, 120, 116>>
(* 'Node name for S&R', the property buildViewerParams leaves out *)
NODE_NAME_KEY == <<78, 111, 100, 101, 32, 110, 97, 109, 101, 32, 102, 111, 114, 32, 83, 38, 82>>
(* the property keys of the nodes: text, seed, Node name for S&R *)
PropKeys == {TEXT_LABEL, <<115, 101, 101, 100>>, NODE_NAME_KEY}

(* the types of the nodes; "" is a node without a type *)
NodeTypes == {"CLIPTextEncode", "LoadImage", "KSampler", ""}

(* COMFY_WIDGET_LABELS[type] ?? [] *)
COMFY_WIDGET_LABELS(type) ==
  (* KSampler: seed, control_after_generate, steps, cfg, sampler_name, scheduler, denoise *)
  IF type = "KSampler" THEN
    <<<<115, 101, 101, 100>>,
      <<99, 111, 110, 116, 114, 111, 108, 95, 97, 102, 116, 101, 114, 95, 103, 101, 110, 101, 114, 97, 116, 101>>,
      <<115, 116, 101, 112, 115>>,
      <<99, 102, 103>>,
      <<115, 97, 109, 112, 108, 101, 114, 95, 110, 97, 109, 101>>,
      <<115, 99, 104, 101, 100, 117, 108, 101, 114>>,
      <<100, 101, 110, 111, 105, 115, 101>>>>
  ELSE
  (* EmptyLatentImage: width, height, batch_size *)
  IF type = "EmptyLatentImage" THEN
    <<<<119, 105, 100, 116, 104>>,
      <<104, 101, 105, 103, 104, 116>>,
      <<98, 97, 116, 99, 104, 95, 115, 105, 122, 101>>>>
  ELSE
  (* CLIPTextEncode: text *)
  IF type = "CLIPTextEncode" THEN
    <<<<116, 101, 120, 116>>>>
  ELSE
  (* SaveImage: filename_prefix *)
  IF type = "SaveImage" THEN
    <<<<102, 105, 108, 101, 110, 97, 109, 101, 95, 112, 114, 101, 102, 105, 120>>>>
  ELSE
  (* LoadImage: image, upload *)
  IF type = "LoadImage" THEN
    <<<<105, 109, 97, 103, 101>>,
      <<117, 112, 108, 111, 97, 100>>>>
  ELSE
  (* CheckpointLoaderSimple: ckpt_name *)
  IF type = "CheckpointLoaderSimple" THEN
    <<<<99, 107, 112, 116, 95, 110, 97, 109, 101>>>>
  ELSE
  (* DiffControlNetLoader: control_net_name *)
  IF type = "DiffControlNetLoader" THEN
    <<<<99, 111, 110, 116, 114, 111, 108, 95, 110, 101, 116, 95, 110, 97, 109, 101>>>>
  ELSE
  (* ControlNetApply: strength *)
  IF type = "ControlNetApply" THEN
    <<<<115, 116, 114, 101, 110, 103, 116, 104>>>>
  ELSE
  (* VAEDecode: no label *)
  IF type = "VAEDecode" THEN
    <<>>
  ELSE <<>>

NoProperties == [k \in {} |-> StringValue(<<>>)]
EmptyNode == [type |-> "", properties |-> NoProperties, widgets_values |-> <<>>]

(* node.properties with the key set to the value, and without the key *)
WithProperty(props, key, value) ==
  [k \in DOMAIN props \cup {key} |-> IF k = key THEN value ELSE props[k]]
WithoutProperty(props, key) == [k \in DOMAIN props \ {key} |-> props[k]]

(* The nodes of the documents are enumerated from the empty node: a node  *)
(* differs from the one decorated before it by its type, by one property   *)
(* or by its last widget value.  Every node with a type of NodeTypes, any  *)
(* values for any of the property keys and at most max widget values is    *)
(* reached.                                                                *)
NodesNextTo(n, max) ==
  {[n EXCEPT !.type = t] : t \in NodeTypes}
  \cup {[n EXCEPT !.properties = WithProperty(n.properties, k, v)] :
          k \in PropKeys, v \in ParamValues}
  \cup {[n EXCEPT !.properties = WithoutProperty(n.properties, k)] :
          k \in DOMAIN n.properties}
  \cup {[n EXCEPT !.widgets_values = Append(n.widgets_values, v)] :
          v \in IF Len(n.widgets_values) < max THEN ParamValues ELSE {}}
  \cup {[n EXCEPT !.widgets_values = SubSeq(n.widgets_values, 1, Len(n.widgets_values) - 1)] :
          i \in IF n.widgets_values # <<>> THEN {1} ELSE {}}

(* a.localeCompare(b) on the keys above: the collation weight of a         *)
(* character (space, then punctuation, then digits, then letters without   *)
(* their case), then lower case before upper case                          *)
CollationWeight(c) ==
  IF c = 32 THEN 1
  ELSE IF c >= 48 /\ c <= 57 THEN 100 + (c - 48)
  ELSE IF c >= 65 /\ c <= 90 THEN 200 + (c - 65)
  ELSE IF c >= 97 /\ c <= 122 THEN 200 + (c - 97)
  ELSE 2 + c

RECURSIVE SeqCompare(_, _)
SeqCompare(a, b) ==
  IF a = <<>> /\ b = <<>> THEN 0
  ELSE IF a = <<>> THEN 0 - 1
  ELSE IF b = <<>> THEN 1
  ELSE IF Head(a) < Head(b) THEN 0 - 1
  ELSE IF Head(a) > Head(b) THEN 1
  ELSE SeqCompare(Tail(a), Tail(b))

LocaleCompare(a, b) ==
  LET primary == SeqCompare([i \in 1..Len(a) |-> CollationWeight(a[i])],
                            [i \in 1..Len(b) |-> CollationWeight(b[i])])
  IN IF primary # 0 THEN primary ELSE SeqCompare(b, a)

(* Object.keys(props).sort((a, b) => a.localeCompare(b)) *)
RECURSIVE SortKeys(_)
SortKeys(keys) ==
  IF keys = {} THEN <<>>
  ELSE LET first == CHOOSE k \in keys : \A o \in keys : LocaleCompare(k, o) <= 0
       IN <<first>> \o SortKeys(keys \ {first})

(* the loop over the sorted property keys *)
RECURSIVE PropertyItems(_, _)
PropertyItems(props, keys) ==
  IF keys = <<>> THEN <<>>
  ELSE IF Head(keys) = NODE_NAME_KEY THEN PropertyItems(props, Tail(keys))
  ELSE <<[label |-> Head(keys), value |-> props[Head(keys)], kind |-> "inline"]>>
       \o PropertyItems(props, Tail(keys))

(* String(i) for i >= 0 *)
RECURSIVE Digits(_)
Digits(i) == IF i < 10 THEN <<48 + i>> ELSE Digits(i \div 10) \o <<48 + (i % 10)>>

(* labels[i] ?? `w${i}`, i counted from 0 *)
WidgetLabel(labels, i) ==
  IF i + 1 <= Len(labels) THEN labels[i + 1] ELSE <<119>> \o Digits(i)

(* raw.includes(ch) *)
Includes(str, c) == \E i \in 1..Len(str) : str[i] = c

shouldOmitWidgetParam(label, value) ==
  LET key == ToLowerCase(Trim(label))
  IN IF key = <<>> THEN FALSE
     ELSE key \in {<<117, 112, 108, 111, 97, 100>>,
                   <<99, 104, 111, 111, 115, 101, 32, 102, 105, 108, 101>>,
                   <<111, 112, 101, 110>>,
                   <<98, 117, 116, 116, 111, 110>>}

(* the classification without the long text label *)
WidgetKindByValueOnly(label, raw) ==
  IF raw.type = "string" /\ Includes(raw.text, 10) THEN "multiline" ELSE "inline"

(* the kind of a widget value *)
WidgetKind(label, raw) ==
  IF label = TEXT_LABEL \/ (raw.type = "string" /\ Includes(raw.text, 10))
  THEN "multiline" ELSE "inline"

(* the loop over the widget values where an omitted value leaves the list *)
(* before the labels are counted                                           *)
RECURSIVE WidgetItemsShiftingLabels(_, _, _)
WidgetItemsShiftingLabels(labels, widgetsValues, i) ==
  IF i >= Len(widgetsValues) THEN <<>>
  ELSE LET label == WidgetLabel(labels, i)
           raw == widgetsValues[i + 1]
       IN IF shouldOmitWidgetParam(label, raw)
          THEN WidgetItemsShiftingLabels(labels,
                 SubSeq(widgetsValues, 1, i)
                 \o SubSeq(widgetsValues, i + 2, Len(widgetsValues)), i)
          ELSE <<[label |-> label, value |-> raw, kind |-> WidgetKind(label, raw)]>>
               \o WidgetItemsShiftingLabels(labels, widgetsValues, i + 1)

(* the loop over the widget values, from index i (counted from 0) *)
RECURSIVE WidgetItems(_, _, _)
WidgetItems(labels, widgetsValues, i) ==
  IF i >= Len(widgetsValues) THEN <<>>
  ELSE LET label == WidgetLabel(labels, i)
           raw == widgetsValues[i + 1]
       IN IF shouldOmitWidgetParam(label, raw)
          THEN WidgetItems(labels, widgetsValues, i + 1)
          ELSE <<[label |-> label, value |-> raw, kind |-> WidgetKind(label, raw)]>>
               \o WidgetItems(labels, widgetsValues, i + 1)

buildViewerParams(n) ==
  PropertyItems(n.properties, SortKeys(DOMAIN n.properties))
  \o WidgetItems(COMFY_WIDGET_LABELS(n.type), n.widgets_values, 0)

(* how many items of buildViewerParams(n) come from the properties *)
PropertyItemCount(n) == Cardinality(DOMAIN n.properties \ {NODE_NAME_KEY})

(* ------------------------------ zoom scale ---------------------------- *)
(* A zoom scale over the whole range of zoomByFactor is written            *)
(* base * ZOOM_STEP^exp with ZOOM_STEP = 1.22, the base being 1 ("one"),   *)
(* the upper limit 4 ("max") or the lower limit 0.1 ("min"); the product   *)
(* of a scale with a power of ZOOM_STEP is exact.  No power of 1.22 is 4,  *)
(* 0.1 or 40, so two scales are equal only when they are written alike.    *)
ZOOM_WHEEL_INTENSITY == 60
UnitScale == [base |-> "one", exp |-> 0]
MaxZoomScale == [base |-> "max", exp |-> 0]
MinZoomScale == [base |-> "min", exp |-> 0]

(* scale * ZOOM_STEP^k *)
ScaleTimes(scale, k) == [scale EXCEPT !.exp = @ + k]

(* x > 4:   1.22^6 = 3.297 and 1.22^7 = 4.023; 4 * 1.22^0 = 4;            *)
(*          0.1 * 1.22^18 = 3.585 and 0.1 * 1.22^19 = 4.374               *)
GreaterThanMax(x) ==
  x.exp > (IF x.base = "one" THEN 6 ELSE IF x.base = "max" THEN 0 ELSE 18)
(* x < 0.1: 1.22^-11 = 0.1122 and 1.22^-12 = 0.0920; 0.1 * 1.22^0 = 0.1;  *)
(*          4 * 1.22^-18 = 0.1116 and 4 * 1.22^-19 = 0.0915               *)
LessThanMin(x) ==
  x.exp < (IF x.base = "one" THEN 0 - 11 ELSE IF x.base = "max" THEN 0 - 18 ELSE 0)
(* x > 1:   1.22^0 = 1; 4 * 1.22^-7 = 0.994 and 4 * 1.22^-6 = 1.213;      *)
(*          0.1 * 1.22^11 = 0.891 and 0.1 * 1.22^12 = 1.087               *)
GreaterThanOne(x) ==
  x.exp > (IF x.base = "one" THEN 0 ELSE IF x.base = "max" THEN 0 - 7 ELSE 11)

(* Math.min(4, x): the lower limit left out *)
ClampScaleUpperOnly(x) == IF GreaterThanMax(x) THEN MaxZoomScale ELSE x
(* Math.min(1, Math.max(0.1, x)): the upper limit at 1 *)
ClampScaleAtOne(x) ==
  IF LessThanMin(x) THEN MinZoomScale
  ELSE IF GreaterThanOne(x) THEN UnitScale ELSE x
(* Math.min(4, Math.max(0.1, x)) *)
ClampScale(x) ==
  IF LessThanMin(x) THEN MinZoomScale
  ELSE IF GreaterThanMax(x) THEN MaxZoomScale ELSE x

(* zoomByFactor's nextScale for the factor ZOOM_STEP^k *)
ZoomNextScale(scale, k) == ClampScale(ScaleTimes(scale, k))

(* the wheel listener's factor Math.pow(ZOOM_STEP, -dy / 60) as a power of *)
(* ZOOM_STEP, for a deltaY that is a multiple of 60                        *)
WheelFactorExp(dy) == (0 - dy) \div ZOOM_WHEEL_INTENSITY
(* the deltaY of wheel events: one and two notches either way, and none   *)
WheelDeltas == {0 - 120, 0 - 60, 0, 60, 120}

(* the scales the engine's fitNodes may leave: 1.22^-14 = 0.062,          *)
(* 1.22^-3 = 0.551, 1.22^9 = 5.987                                        *)
FitScales == {[base |-> "one", exp |-> e] : e \in {0 - 14, 0 - 3, 9}}

(* the zoom operations made since the engine set the scale: the last two *)
Remember(trail, scale, k) ==
  LET all == Append(trail, [from |-> scale, exp |-> k])
  IN IF Len(all) > 2 THEN Tail(all) ELSE all

(* --------------------------- workflow files --------------------------- *)
(* A file as loadWorkflowFromFile sees it: the lower-cased extension of    *)
(* its path, whether readFile succeeds, whether it starts with the PNG     *)
(* signature, whether its text is JSON, and for a PNG its chunks in order. *)
(* A chunk has a type; a tEXt or iTXt chunk has a keyword ("" when the     *)
(* data has no keyword before its first zero byte) and a text; payload     *)
(* tells how an iTXt chunk holds its text: "plain", "deflated" (the        *)
(* compression flag is 1), "broken" (flag 1, not inflatable) or "short"    *)
(* (no end of the language tag or of the translated keyword).              *)
MISSING_WORKFLOW == "PNG metadata missing workflow field"

Chunk(type, key, value, payload) ==
  [type |-> type, key |-> key, value |-> value, payload |-> payload]

PngChunks ==
  {Chunk("tEXt", k, v, "plain") :
     k \in {"workflow", "Workflow", "prompt", ""}, v \in {"", "{}"}}
  \cup {Chunk("iTXt", k, "{}", pl) :
          k \in {"workflow", "Workflow"}, pl \in {"plain", "deflated", "broken", "short"}}
  \cup {Chunk("iTXt", "", "{}", "plain"),
        Chunk("IDAT", "", "", "plain"),
        Chunk("IEND", "", "", "plain")}

EmptyPng == [extension |-> ".png", readable |-> TRUE, signature |-> TRUE,
             json |-> TRUE, chunks |-> <<>>]

(* The files are enumerated from the empty PNG: a file differs from the    *)
(* one read before it by its extension, by one of its flags or by its last *)
(* chunk.  Every file with at most max chunks is reached.                  *)
FilesNextTo(file, max) ==
  {[file EXCEPT !.extension = e] : e \in {".png", ".json", ".txt"}}
  \cup {[file EXCEPT !.readable = ~@], [file EXCEPT !.signature = ~@],
        [file EXCEPT !.json = ~@]}
  \cup {[file EXCEPT !.chunks = Append(@, c)] :
          c \in IF Len(file.chunks) < max THEN PngChunks ELSE {}}
  \cup {[file EXCEPT !.chunks = SubSeq(@, 1, Len(@) - 1)] :
          i \in IF file.chunks # <<>> THEN {1} ELSE {}}

(* text[key] = value *)
SetText(text, key, value) ==
  [k \in DOMAIN text \cup {key} |-> IF k = key THEN value ELSE text[k]]

(* parsePngTextChunks after the signature test: the loop over the chunks  *)
RECURSIVE ParsePngTextChunks(_, _)
ParsePngTextChunks(chunks, text) ==
  IF chunks = <<>> THEN text
  ELSE LET c == Head(chunks)
           read == IF c.type = "tEXt" /\ c.key # ""
                   THEN SetText(text, c.key, c.value)
                   ELSE IF c.type = "iTXt" /\ c.key # ""
                           /\ c.payload \in {"plain", "deflated"}
                   THEN SetText(text, c.key, c.value)
                   ELSE text
       IN IF c.type = "IEND" THEN read ELSE ParsePngTextChunks(Tail(chunks), read)

NoText == [k \in {} |-> ""]

Failure(error) == [ok |-> FALSE, error |-> error]
Success == [ok |-> TRUE, error |-> ""]

(* the PNG branch that takes the workflow of any text it finds *)
LoadPngTakingAnyText(file) ==
  IF ~file.signature THEN Failure("Not a PNG file")
  ELSE Success

(* the PNG branch of loadWorkflowFromFile *)
LoadPng(file) ==
  IF ~file.signature THEN Failure("Not a PNG file")
  ELSE LET text == ParsePngTextChunks(file.chunks, NoText)
           rawWorkflow == IF "workflow" \in DOMAIN text THEN text["workflow"]
                          ELSE IF "Workflow" \in DOMAIN text THEN text["Workflow"]
                          ELSE ""
       IN IF rawWorkflow = "" THEN Failure(MISSING_WORKFLOW) ELSE Success

(* loadWorkflowFromFile(sourcePath) for the file at the path *)
LoadFile(file) ==
  IF ~file.readable THEN Failure("ENOENT")
  ELSE IF file.extension = ".json"
  THEN IF file.json THEN Success ELSE Failure("SyntaxError")
  ELSE IF file.extension = ".png" THEN LoadPng(file)
  ELSE Failure("Unsupported file type")

(* onDrawForeground draws at most PARAM_MAX_LINES boxes *)
PARAM_MAX_LINES == 20
DrawnParamBoxes(params) ==
  IF Len(params) < PARAM_MAX_LINES THEN Len(params) ELSE PARAM_MAX_LINES

(* ------------------------ the parameter boxes ------------------------- *)
PARAM_LINE_HEIGHT == 16
PARAM_WIDGET_HEIGHT == 20
PARAM_PADDING_X == 10
PARAM_BOX_GAP == 6
PARAM_MULTILINE_EXTRA == 28
MULTILINE_PREVIEW_LINES == 6
(* LiteGraph.NODE_SLOT_HEIGHT ?? 20 *)
NODE_SLOT_HEIGHT == 20

Max(a, b) == IF a > b THEN a ELSE b

(* What the layout reads of a node besides its parameters: the lengths of  *)
(* node.inputs and node.outputs (0 when not an array) and node.size, an    *)
(* array [width, height] or something that is no array.                    *)
Frame(inputs, outputs, size) == [inputs |-> inputs, outputs |-> outputs, size |-> size]
NoSize == [mode |-> "null"]
Size(width, height) == [mode |-> "array", width |-> width, height |-> height]
FrameWidths == {30, 210}
FrameHeights == {0, 3000}
DefaultFrame == Frame(0, 0, Size(210, 0))

(* node.size?.[0] ?? 0 *)
Width(frame) == IF frame.size = NoSize THEN 0 ELSE frame.size.width

(* params.slice(0, PARAM_MAX_LINES) *)
Shown(params) == SubSeq(params, 1, DrawnParamBoxes(params))

(* the loop of buildOverlayLayout from item i on, y being the running      *)
(* offset: the items and the offset the loop ends with                     *)
RECURSIVE LayoutFrom(_, _, _, _)
LayoutFrom(shown, i, y, startY) ==
  IF i > Len(shown) THEN [items |-> <<>>, y |-> y]
  ELSE LET height == IF shown[i].kind = "multiline"
                     THEN PARAM_LINE_HEIGHT * MULTILINE_PREVIEW_LINES + PARAM_MULTILINE_EXTRA
                     ELSE PARAM_WIDGET_HEIGHT
           rest == LayoutFrom(shown, i + 1, y + height + PARAM_BOX_GAP, startY)
       IN [items |-> <<[kind |-> shown[i].kind, top |-> y - startY, height |-> height]>>
                       \o rest.items,
           y |-> rest.y]

(* buildOverlayLayout: Null without parameters *)
buildOverlayLayout(params, frame) ==
  IF params = <<>> THEN [mode |-> "null"]
  ELSE LET maxSlots == Max(frame.inputs, frame.outputs)
           startY == Max(8, maxSlots * NODE_SLOT_HEIGHT + 8)
           boxWidth == Max(40, Width(frame) - PARAM_PADDING_X * 2)
           loop == LayoutFrom(Shown(params), 1, startY, startY)
       IN [mode |-> "layout", startY |-> startY, boxWidth |-> boxWidth,
           contentHeight |-> Max(0, loop.y - startY - PARAM_BOX_GAP),
           items |-> loop.items]

(* the loop of onDrawForeground from item i on: the rectangles it draws *)
RECURSIVE DrawFrom(_, _, _, _)
DrawFrom(shown, i, y, boxWidth) ==
  IF i > Len(shown) THEN <<>>
  ELSE LET boxHeight == IF shown[i].kind = "multiline"
                        THEN PARAM_LINE_HEIGHT * MULTILINE_PREVIEW_LINES
                               + PARAM_MULTILINE_EXTRA
                        ELSE PARAM_WIDGET_HEIGHT
       IN <<[rx |-> PARAM_PADDING_X, ry |-> y, rw |-> boxWidth, rh |-> boxHeight]>>
            \o DrawFrom(shown, i + 1, y + boxHeight + PARAM_BOX_GAP, boxWidth)

(* the draw hook with rectangles that follow each other without the gap *)
onDrawForegroundWithoutGap(params, frame) ==
  LET maxSlots == Max(frame.inputs, frame.outputs)
      startY == Max(8, maxSlots * NODE_SLOT_HEIGHT + 8)
      boxWidth == Max(40, Width(frame) - PARAM_PADDING_X * 2)
  IN [i \in 1..DrawnParamBoxes(params) |->
        [DrawFrom(Shown(params), 1, startY, boxWidth)[i]
           EXCEPT !.ry = @ - (i - 1) * PARAM_BOX_GAP]]

(* node.onDrawForeground: the rectangles drawn, in order; none without    *)
(* parameters                                                             *)
onDrawForeground(params, frame) ==
  IF params = <<>> THEN <<>>
  ELSE LET maxSlots == Max(frame.inputs, frame.outputs)
           startY == Max(8, maxSlots * NODE_SLOT_HEIGHT + 8)
           boxWidth == Max(40, Width(frame) - PARAM_PADDING_X * 2)
       IN DrawFrom(Shown(params), 1, startY, boxWidth)

(* the loop that adds up the height the boxes need *)
RECURSIVE NeededFrom(_, _, _)
NeededFrom(shown, i, needed) ==
  IF i > Len(shown) THEN needed
  ELSE NeededFrom(shown, i + 1,
                  needed + (IF shown[i].kind = "multiline"
                            THEN PARAM_LINE_HEIGHT * MULTILINE_PREVIEW_LINES
                                   + PARAM_MULTILINE_EXTRA
                            ELSE PARAM_WIDGET_HEIGHT) + PARAM_BOX_GAP)

(* the growth of the node without the rows of the slots *)
GrowNodeHeightWithoutSlots(params, frame) ==
  IF frame.size # NoSize /\ params # <<>>
  THEN [frame EXCEPT !.size.height = Max(@, NeededFrom(Shown(params), 1, 12))]
  ELSE frame

(* installParamOverlay: node.size[1] = Math.max(node.size[1] ?? 0, needed) *)
GrowNodeHeight(params, frame) ==
  IF frame.size # NoSize /\ params # <<>>
  THEN LET maxSlots == Max(frame.inputs, frame.outputs)
           needed == NeededFrom(Shown(params), 1,
                                Max(0, maxSlots * NODE_SLOT_HEIGHT + 8) + 12)
       IN [frame EXCEPT !.size.height = Max(@, needed)]
  ELSE frame

(* Nodes with k widget values: all numbers, all texts with a line break,  *)
(* or the two in turn.                                                    *)
LaidOutNode(k, mix) ==
  [EmptyNode EXCEPT !.widgets_values =
     [i \in 1..k |-> IF mix = "multiline" \/ (mix = "mixed" /\ i % 2 = 1)
                     THEN StringValue(<<97, 10, 98>>)
                     ELSE NumberValue(<<49>>)]]
Mixes == {"inline", "multiline", "mixed"}

(* ---------------------------------------------------------------------- *)
(* The documents the file loader returns.  Every path holds the same small *)
(* workflow: node 1 (one inline parameter) and node 2 (no parameter), 20x20  *)
(* px each as saved, and one group whose rectangle starts at               *)
(* (0, 100) px and is 100x60 px.  Odd paths carry the group.               *)
(* ---------------------------------------------------------------------- *)
WorkflowNodes(path) == {1, 2}
WorkflowHasGroup(path) == path % 2 = 1
WorkflowPos(n) == IF n = 1 THEN <<4 * 20, 4 * 40>> ELSE <<4 * 60, 4 * 40>>
(* the data of the nodes: node 1 has one widget value, the number 1, and  *)
(* node 2 has no properties and no widget values                          *)
WorkflowNode(n) ==
  IF n = 1 THEN [type |-> "", properties |-> NoProperties,
                 widgets_values |-> <<NumberValue(<<49>>)>>]
  ELSE EmptyNode
(* every node is taken to have parameters *)
NodeHasParamsAlways(n) == TRUE
(* buildOverlayLayout: null when the node has no parameter *)
NodeHasParams(n) == buildViewerParams(WorkflowNode(n)) # <<>>
(* Node sizes after decoration: installParamOverlay grows a node that has  *)
(* parameters to 8 + 12 + (20 + 6) = 46 px (one inline parameter, no slots).*)
NodeSize(n) == IF NodeHasParams(n) THEN <<4 * 20, 4 * 46>> ELSE <<4 * 20, 4 * 20>>
GroupPos == <<0, 4 * 100>>
GroupSize == <<4 * 100, 4 * 60>>

(* Displacements of a pointer-move from a gesture's start point: squared   *)
(* length 8 (below the threshold), 9 (exactly at it), 10 (above it).       *)
Deltas == {<<2, 2>>, <<3, 0>>, <<3, 1>>}
(* Pointer positions of wheel events (client px). *)
WheelPts == {<<0, 0>>, <<4, 4>>}

VARIABLES
  spaceDown, emptyClickCandidate, dragCandidate, activeDrag, overlayInteracting,
  cursor,
  dsOffset, dsScale, graphNodes, graphHasGroup, nodePos, selected_nodes,
  selected_group,
  selectedNode, nodeOverlayVisible, overlaySyncRunning, overlayTicks, overlayLayout,
  lastOverlayLayout, details, status,
  tabs, activeTabId, reads, opened,
  link_type_colors, registered,
  viewerNode, viewerParams, viewerFrame,
  zoomScale, zoomRequested, zoomTrail,
  loadedFile, loadResult,
  pressed, ev, zooms

gestureVars == <<spaceDown, emptyClickCandidate, dragCandidate, activeDrag, cursor>>
viewVars == <<dsOffset, dsScale>>
graphVars == <<graphNodes, graphHasGroup, nodePos, selected_nodes, selected_group>>
panelVars == <<selectedNode, nodeOverlayVisible, overlaySyncRunning, overlayTicks,
               overlayLayout, lastOverlayLayout, details>>
tabVars == <<tabs, activeTabId, reads, opened, status>>
envVars == <<pressed, zooms>>
(* LGraphCanvas.link_type_colors, and how many slot types were registered *)
colorVars == <<link_type_colors, registered>>
(* the node decorated last and its node.__viewerParams *)
paramVars == <<viewerNode, viewerParams, viewerFrame>>
(* canvas.ds.scale over its whole range, the scale zoomByFactor asked the *)
(* engine for last, and the zoom operations made since the engine set the *)
(* scale itself (the last two of them)                                    *)
zoomVars == <<zoomScale, zoomRequested, zoomTrail>>
(* the file the main process read last and the payload it returned *)
fileVars == <<loadedFile, loadResult>>
vars == <<gestureVars, overlayInteracting, viewVars, graphVars, panelVars, tabVars,
          colorVars, paramVars, zoomVars, fileVars, envVars, ev>>

(* ev: the event delivered last, and what its handler found when it      *)
(* arrived: the node whose details were shown, the pointers that owned   *)
(* the active drag and the drag candidate (0 for none), the active tab.  *)
Owner(r) == IF r.mode = "null" THEN 0 ELSE r.pointerId

Event(type, p, x, y, b) ==
  [type |-> type, pointerId |-> p, x |-> x, y |-> y, button |-> b,
   selectedNode |-> selectedNode, dragOwner |-> Owner(activeDrag),
   candOwner |-> Owner(dragCandidate), activeTab |-> activeTabId]

(* ------------------------ coordinate transforms ----------------------- *)
Abs(a) == IF a < 0 THEN -a ELSE a

(* pixels / canvas.ds.scale, in quarter pixels *)
DivScale(px, scale) == (4 * px) \div scale

(* LGraphCanvas.convertEventToCanvasOffset: client px -> canvas space *)
ConvertEventToCanvasOffset(x, y, offset, scale) ==
  <<DivScale(x, scale) - offset[1], DivScale(y, scale) - offset[2]>>

(* LGraphNode.isPointInside(x, y, margin, skip_title) of the engine *)
IsPointInside(pos, size, x, y, margin, skipTitle) ==
  LET marginTop == IF skipTitle THEN 0 ELSE 4 * NODE_TITLE_HEIGHT
  IN /\ pos[1] - 4 * 4 - margin < x
     /\ pos[1] + size[1] + 4 * 4 + margin > x
     /\ pos[2] - marginTop - margin < y
     /\ pos[2] + size[2] + margin > y

(* graph.getNodeOnPos: the topmost (last) node holding the point, or none *)
GetNodeOnPos(c, nodes, pos) ==
  LET hits == {n \in nodes : IsPointInside(pos[n], NodeSize(n), c[1], c[2], 0, FALSE)}
  IN IF hits = {} THEN NoNode ELSE CHOOSE n \in hits : \A m \in hits : m <= n

(* graph.getGroupOnPos as overridden by the viewer: only the handle band *)
GetGroupOnPos(c, hasGroup) ==
  /\ hasGroup
  /\ IsPointInside(GroupPos, GroupSize, c[1], c[2], 4 * 2, TRUE)
  /\ c[2] <= GroupPos[2] + 4 * GROUP_DRAG_HANDLE_HEIGHT

IsInNodeTitleBarWide(n, c, pos) ==
  /\ n # NoNode
  /\ c[1] >= pos[n][1]
  /\ c[1] <= pos[n][1] + NodeSize(n)[1]
  /\ c[2] <= pos[n][2] + NodeSize(n)[2]

IsInNodeTitleBar(n, c, pos) ==
  /\ n # NoNode
  /\ c[1] >= pos[n][1]
  /\ c[1] <= pos[n][1] + NodeSize(n)[1]
  /\ c[2] >= pos[n][2] - 4 * NODE_TITLE_HEIGHT
  /\ c[2] <= pos[n][2]

IsNodeSelected(n) == n # NoNode /\ n \in selected_nodes

(* ------------------------------ threshold ----------------------------- *)
DistSq(x, y, sx, sy) == (x - sx) * (x - sx) + (y - sy) * (y - sy)

(* the squared displacement compared with the 3 px distance itself *)
ExceedsThresholdUnsquared(x, y, sx, sy) == DistSq(x, y, sx, sy) > 3

(* the 3 px distance tested on each axis by itself *)
ExceedsThresholdPerAxis(x, y, sx, sy) == Abs(x - sx) > 3 \/ Abs(y - sy) > 3

(* the negation of "dx * dx + dy * dy <= DRAG_THRESHOLD_SQ" *)
ExceedsThreshold(x, y, sx, sy) == DistSq(x, y, sx, sy) > DRAG_THRESHOLD_SQ

(* --------------------------- the side panel --------------------------- *)
(* overlayTicks: how many tick callbacks of startOverlaySync wait for the  *)
(* next animation frame (all that wait run in that one frame); each is a  *)
(* chain of callbacks of its own.  MaxTicks stands for MaxTicks or more.   *)
Panel == [selectedNode |-> selectedNode, nodeOverlayVisible |-> nodeOverlayVisible,
          overlaySyncRunning |-> overlaySyncRunning,
          overlayTicks |-> overlayTicks, overlayLayout |-> overlayLayout,
          lastOverlayLayout |-> lastOverlayLayout, details |-> details]

NoDetails == [kind |-> "none", of |-> 0]

GetActiveTab(tt, id) ==
  IF \E i \in 1..Len(tt) : tt[i].id = id
  THEN tt[CHOOSE i \in 1..Len(tt) : tt[i].id = id]
  ELSE Null

(* clearNodeOverlay, then setNodeOverlayVisible(false) -> stopOverlaySync *)
ShowActiveTabSummary(P, tt, id) ==
  LET tab == GetActiveTab(tt, id)
  IN [selectedNode |-> NoNode, nodeOverlayVisible |-> FALSE,
      overlaySyncRunning |-> FALSE, overlayTicks |-> P.overlayTicks,
      overlayLayout |-> FALSE,
      lastOverlayLayout |-> Null,
      details |-> IF tab = Null THEN NoDetails
                  ELSE [kind |-> "summary", of |-> tab.sourcePath]]

(* computeOverlayLayout(node): PARAM_PADDING_X = 10, startY = 8 (no slots), *)
(* boxWidth = max(40, 20 - 20), contentHeight = 20; left/top in quarter px *)
ComputeOverlayLayout(n, pos, offset, scale) ==
  [left |-> (pos[n][1] + 4 * 10 + offset[1]) * scale,
   top |-> (pos[n][2] + 4 * 8 + offset[2]) * scale,
   width |-> 40, height |-> 20, scale |-> scale]

(* updateNodeOverlay without its return on overlayInteracting *)
UpdateNodeOverlayWhileInteracting(P, pos, offset, scale, interacting) ==
  IF ~P.nodeOverlayVisible \/ P.selectedNode = NoNode \/ ~P.overlayLayout THEN P
  ELSE IF P.selectedNode \notin DOMAIN pos THEN P
  ELSE LET layout == ComputeOverlayLayout(P.selectedNode, pos, offset, scale)
       IN IF P.lastOverlayLayout # layout THEN [P EXCEPT !.lastOverlayLayout = layout]
          ELSE P

(* updateNodeOverlay: lastOverlayLayout is the geometry last applied to    *)
(* the overlay element by it (null again once the loop has been stopped)   *)
UpdateNodeOverlay(P, pos, offset, scale, interacting) ==
  IF ~P.nodeOverlayVisible \/ P.selectedNode = NoNode \/ ~P.overlayLayout THEN P
  ELSE IF interacting THEN P
  ELSE IF P.selectedNode \notin DOMAIN pos THEN P
  ELSE LET layout == ComputeOverlayLayout(P.selectedNode, pos, offset, scale)
           prev == P.lastOverlayLayout
           changed == \/ prev = Null
                      \/ /\ prev # Null
                         /\ \/ Abs(prev.left - layout.left) > 2
                            \/ Abs(prev.top - layout.top) > 2
                            \/ prev.scale # layout.scale
                            \/ prev.width # layout.width
                            \/ prev.height # layout.height
       IN IF changed THEN [P EXCEPT !.lastOverlayLayout = layout] ELSE P

(* startOverlaySync: the tick callbacks pending once it returns *)
StartOverlaySync(running, ticks) ==
  IF running THEN ticks
  ELSE IF ticks < MaxTicks THEN ticks + 1 ELSE MaxTicks

(* canvas.onNodeSelected: renderNodeOverlay, setNodeOverlayVisible, update *)
OnNodeSelected(P, n, pos, offset, scale, interacting) ==
  LET overlayReady == NodeHasParams(n)
      shown == [selectedNode |-> n, nodeOverlayVisible |-> overlayReady,
                overlaySyncRunning |-> overlayReady,
                overlayTicks |->
                  IF overlayReady
                  THEN StartOverlaySync(P.overlaySyncRunning, P.overlayTicks)
                  ELSE P.overlayTicks,
                overlayLayout |-> overlayReady,
                lastOverlayLayout |-> IF overlayReady THEN P.lastOverlayLayout ELSE Null,
                details |-> [kind |-> "node", of |-> n]]
  IN UpdateNodeOverlay(shown, pos, offset, scale, interacting)

SetPanel(P) ==
  /\ selectedNode' = P.selectedNode
  /\ nodeOverlayVisible' = P.nodeOverlayVisible
  /\ overlaySyncRunning' = P.overlaySyncRunning
  /\ overlayTicks' = P.overlayTicks
  /\ overlayLayout' = P.overlayLayout
  /\ lastOverlayLayout' = P.lastOverlayLayout
  /\ details' = P.details

(* setCanvasCursor without the open hand of a held Space *)
CanvasCursorWithoutGrab(drag, space) ==
  IF drag.mode = "pan" THEN "grabbing"
  ELSE IF drag.mode = "node" THEN "move"
  ELSE ""

(* setCanvasCursor *)
CanvasCursor(drag, space) ==
  IF drag.mode = "pan" THEN "grabbing"
  ELSE IF drag.mode = "node" THEN "move"
  ELSE IF space THEN "grab"
  ELSE ""

(* nothing is stored *)
SaveActiveTabViewNever(tt, id, offset, scale) == tt

(* saveActiveTabView *)
SaveActiveTabView(tt, id, offset, scale) ==
  [i \in 1..Len(tt) |->
     IF tt[i].id = id THEN [tt[i] EXCEPT !.view = [offset |-> offset, scale |-> scale]]
     ELSE tt[i]]

(* ------------------------------ type colors --------------------------- *)
(* A type name is a string. *)
(* The type names registered: a-a, A-A, a-A, " a-a", " a-A", "a-a ", any,   *)
(* ANY, " Any", a, " a ", A, a_1, " ", the empty name, "-".                 *)
TypeNames ==
  << <<97, 45, 97>>, <<65, 45, 65>>, <<97, 45, 65>>, <<32, 97, 45, 97>>,
     <<32, 97, 45, 65>>, <<97, 45, 97, 32>>, <<97, 110, 121>>, <<65, 78, 89>>,
     <<32, 65, 110, 121>>, <<97>>, <<32, 97, 32>>, <<65>>, <<97, 95, 49>>,
     <<32>>, <<>>, <<45>> >>

(* BASE_TYPE_COLORS, the entry whose key the type names above can reach: ANY *)
BASE_TYPE_COLORS == [key \in {<<65, 78, 89>>} |-> [kind |-> "base", hex |-> "#c9d1d9"]]

(* canonicalizeType *)
CanonicalizeType(type) ==
  LET trimmed == Trim(type)
  IN IF trimmed = <<>> THEN trimmed
     ELSE IF \A i \in 1..Len(trimmed) : IsWordChar(trimmed[i]) THEN ToUpperCase(trimmed)
     ELSE trimmed

(* a ^ b for bytes *)
RECURSIVE XorBits(_, _, _)
XorBits(a, b, n) ==
  IF n = 0 THEN 0
  ELSE (((a % 2) + (b % 2)) % 2) + 2 * XorBits(a \div 2, b \div 2, n - 1)

(* fnv1a32 on 32-bit words kept as <<high 16 bits, low 16 bits>>: the      *)
(* offset basis 0x811c9dc5, hash ^= code, hash = imul(hash, 0x01000193)    *)
RECURSIVE Fnv1a32From(_, _)
Fnv1a32From(hash, input) ==
  IF input = <<>> THEN hash
  ELSE LET lo == (hash[2] \div 256) * 256 + XorBits(hash[2] % 256, Head(input), 8)
           hi == hash[1]
           p == lo * 403
       IN Fnv1a32From(<<(p \div 65536 + hi * 403 + lo * 256) % 65536, p % 65536>>,
                      Tail(input))

Fnv1a32(input) == Fnv1a32From(<<33052, 40389>>, input)

(* hash % 360, 65536 being 16 modulo 360 *)
Hue(hash) == ((hash[1] % 360) * 16 + hash[2]) % 360

(* the hash taken of the name as given, not of its canonical form *)
StableTypeColorOfRawName(type) ==
  LET canonical == CanonicalizeType(type)
      tries == <<canonical, ToUpperCase(canonical), ToLowerCase(canonical),
                 type, ToUpperCase(type), ToLowerCase(type)>>
      hits == {i \in 1..6 : tries[i] \in DOMAIN BASE_TYPE_COLORS}
  IN IF hits # {}
     THEN BASE_TYPE_COLORS[tries[CHOOSE i \in hits : \A j \in hits : i <= j]]
     ELSE [kind |-> "hsl", hue |-> Hue(Fnv1a32(type))]

(* stableTypeColor: a base color, or rgbToHex(hslToRgb(hue, 0.62, 0.55)),  *)
(* which is a function of the hue alone and is kept as the hue             *)
StableTypeColor(type) ==
  LET canonical == CanonicalizeType(type)
      tries == <<canonical, ToUpperCase(canonical), ToLowerCase(canonical),
                 type, ToUpperCase(type), ToLowerCase(type)>>
      hits == {i \in 1..6 : tries[i] \in DOMAIN BASE_TYPE_COLORS}
  IN IF hits # {}
     THEN BASE_TYPE_COLORS[tries[CHOOSE i \in hits : \A j \in hits : i <= j]]
     ELSE [kind |-> "hsl", hue |-> Hue(Fnv1a32(canonical))]

(* the keys ensureTypeColors writes, in the order of its Set *)
TypeKeys(type) == <<type, CanonicalizeType(type), ToUpperCase(type), ToLowerCase(type)>>

(* ensureTypeColors(type) on the registry reg *)
EnsureTypeColors(reg, type) ==
  LET keys == TypeKeys(type)
      present == {i \in 1..4 : keys[i] # <<>> /\ keys[i] \in DOMAIN reg}
      color == IF present # {}
               THEN reg[keys[CHOOSE i \in present : \A j \in present : i <= j]]
               ELSE StableTypeColor(type)
      written == {keys[i] : i \in {j \in 1..4 : keys[j] # <<>>}}
  IN [key \in DOMAIN reg \cup written |-> IF key \in written THEN color ELSE reg[key]]

(* for (const type of Object.keys(BASE_TYPE_COLORS)) ensureTypeColors(type) *)
RegisterBaseTypes(reg) == EnsureTypeColors(reg, <<65, 78, 89>>)

(* the slot types of a document: its nodes have no inputs and no outputs *)
WorkflowSlotTypes(path) == <<>>

(* registerWorkflowTypeColors: ensureTypeColors for every slot type in turn *)
RECURSIVE RegisterWorkflowTypeColors(_, _)
RegisterWorkflowTypeColors(reg, types) ==
  IF types = <<>> THEN reg
  ELSE RegisterWorkflowTypeColors(EnsureTypeColors(reg, Head(types)), Tail(types))

(* the entry of a key in the registry *)
RegistryColor(reg, key) == IF key \in DOMAIN reg THEN reg[key] ELSE Null

(* ------------------------------- Init --------------------------------- *)
(* The state after the module's top-level code has run: no tab, an empty   *)
(* graph, the engine's default view, updateEmptyState() done.              *)
Init ==
  /\ spaceDown = FALSE
  /\ emptyClickCandidate = Null
  /\ dragCandidate = Null
  /\ activeDrag = Null
  /\ overlayInteracting = FALSE
  /\ cursor = ""
  /\ dsOffset = <<0, 0>>
  /\ dsScale = 1
  /\ graphNodes = {}
  /\ graphHasGroup = FALSE
  /\ nodePos = <<>>
  /\ selected_nodes = {}
  /\ selected_group = FALSE
  /\ selectedNode = NoNode
  /\ nodeOverlayVisible = FALSE
  /\ overlaySyncRunning = FALSE
  /\ overlayTicks = 0
  /\ overlayLayout = FALSE
  /\ lastOverlayLayout = Null
  /\ details = NoDetails
  /\ status = [kind |-> "Ready", path |-> 0]
  /\ tabs = <<>>
  /\ activeTabId = 0
  /\ reads = [q \in TabPaths |-> 0]
  /\ opened = 0
  /\ link_type_colors = <<>>
  /\ registered = 0
  /\ viewerNode = EmptyNode
  /\ viewerParams = <<>>
  /\ viewerFrame = DefaultFrame
  /\ zoomScale = UnitScale
  /\ zoomRequested = Null
  /\ zoomTrail = <<>>
  /\ loadedFile = EmptyPng
  /\ loadResult = Null
  /\ pressed = {}
  /\ ev = Event("init", 0, 0, 0, 0)
  /\ zooms = 0

(* --------------------------- gesture helpers -------------------------- *)
(* canvasEl.setPointerCapture(p) is called exactly where an active drag   *)
(* of p begins; the capture ends with the pointer's up or cancel.         *)
Captured(p) == activeDrag # Null /\ activeDrag.pointerId = p

(* the window the viewport offset and the node positions are kept in *)
InWindow(v, origin, shift) ==
  /\ Abs(v[1] - origin[1]) <= 4 * shift
  /\ Abs(v[2] - origin[2]) <= 4 * shift

WithinShift(shift) ==
  /\ InWindow(dsOffset, <<0, 0>>, shift)
  /\ \A n \in DOMAIN nodePos : InWindow(nodePos[n], WorkflowPos(n), shift)

(* beginPan: capture the current viewport offset *)
BeginPan(p, sx, sy) ==
  [mode |-> "pan", pointerId |-> p, startX |-> sx, startY |-> sy,
   offsetX |-> dsOffset[1], offsetY |-> dsOffset[2]]

(* beginNodeDrag without the fall-back to a pan when nothing is selected *)
BeginNodeDragWithoutFallback(p, sx, sy) ==
  [mode |-> "node", pointerId |-> p, startX |-> sx, startY |-> sy,
   nodes |-> [n \in selected_nodes |-> nodePos[n]], live |-> TRUE]

(* beginNodeDrag: capture every selected node's position; pan when none *)
BeginNodeDrag(p, sx, sy) ==
  IF selected_nodes = {} THEN BeginPan(p, sx, sy)
  ELSE [mode |-> "node", pointerId |-> p, startX |-> sx, startY |-> sy,
        nodes |-> [n \in selected_nodes |-> nodePos[n]], live |-> TRUE]

(* the candidate listener's choice of mode (main.ts 1312-1315) *)
CandidateMode(node, group, c) ==
  IF node # NoNode /\ IsNodeSelected(node) /\ IsInNodeTitleBar(node, c, nodePos) THEN "node"
  ELSE IF node = NoNode /\ ~group THEN "pan"
  ELSE "null"

ShouldPanMiddleOnly(b) == b = 1

(* the immediate-pan listeners' test (main.ts 1246, 1262) *)
ShouldPan(b) == b = 1 \/ (spaceDown /\ b = 0)

(* isEmptySpaceClick; the group is looked up whether or not a node is hit *)
IsEmptySpaceClick(b, c) ==
  /\ b = 0
  /\ ~spaceDown
  /\ activeDrag.mode # "pan"
  /\ GetNodeOnPos(c, graphNodes, nodePos) = NoNode
  /\ ~GetGroupOnPos(c, graphHasGroup)

(* ------------------------- canvas: pointerdown ------------------------ *)
(* First listener (capture): middle button or Space + primary button pans *)
(* at once and stops the event for every later listener and the engine.   *)
ImmediatePanDown(p, x, y) ==
  /\ dragCandidate' = Null
  /\ activeDrag' = BeginPan(p, x, y)
  /\ cursor' = CanvasCursor(activeDrag', spaceDown)
  /\ UNCHANGED <<spaceDown, emptyClickCandidate, overlayInteracting, viewVars,
                 graphVars, panelVars, tabVars, zooms>>

(* the early returns without the test for an active drag *)
CandidateListenerReturnsUnlessDragging(b) == b # 0 \/ spaceDown

(* the early returns of the candidate listener (main.ts 1308-1310) *)
CandidateListenerReturns(b) == b # 0 \/ spaceDown \/ activeDrag # Null

(* Second and third listener, then the engine's own handler (selection):  *)
(* a press on a node selects it, alone or (shift) added to the selection; *)
(* a press with shift on a node that is selected leaves the selection as  *)
(* it is.                                                                 *)
CandidateDown(p, b, x, y, shift) ==
  LET c == ConvertEventToCanvasOffset(x, y, dsOffset, dsScale)
      node == GetNodeOnPos(c, graphNodes, nodePos)
      group == IF node # NoNode THEN FALSE ELSE GetGroupOnPos(c, graphHasGroup)
      mode == CandidateMode(node, group, c)
      P1 == IF ~shift /\ selected_nodes # {}
            THEN ShowActiveTabSummary(Panel, tabs, activeTabId) ELSE Panel
  IN /\ (shift => node # NoNode)
     /\ dragCandidate' =
          IF CandidateListenerReturns(b) THEN dragCandidate
          ELSE IF mode = "null" THEN Null
          ELSE [mode |-> mode, pointerId |-> p, startX |-> x, startY |-> y]
     /\ emptyClickCandidate' =
          IF IsEmptySpaceClick(b, c) THEN [mode |-> "click", pointerId |-> p, x |-> x, y |-> y]
          ELSE emptyClickCandidate
     /\ IF node # NoNode /\ shift /\ node \in selected_nodes
        THEN UNCHANGED <<selected_nodes, selected_group, panelVars>>
        ELSE IF node # NoNode
        THEN /\ selected_nodes' = (IF shift THEN selected_nodes ELSE {}) \cup {node}
             /\ SetPanel(OnNodeSelected(P1, node, nodePos, dsOffset, dsScale,
                                        overlayInteracting))
             /\ UNCHANGED selected_group
        ELSE /\ selected_group' = GetGroupOnPos(c, graphHasGroup)
             /\ UNCHANGED <<selected_nodes, panelVars>>
     /\ UNCHANGED <<spaceDown, activeDrag, cursor, overlayInteracting, viewVars,
                    graphNodes, graphHasGroup, nodePos, tabVars, zooms>>

PointerDown(p, b, x, y, shift) ==
  /\ p \notin pressed
  /\ pressed' = pressed \cup {p}
  /\ ev' = Event("pointerdown", p, x, y, b)
  /\ UNCHANGED <<colorVars, paramVars, zoomVars, fileVars>>
  /\ IF ShouldPan(b)
     THEN ~shift /\ ImmediatePanDown(p, x, y)
     ELSE CandidateDown(p, b, x, y, shift)

(* ------------------------- canvas: pointermove ------------------------ *)
(* the displacement added as it is, not divided by the scale *)
PanOffsetUnscaled(drag, x, y, scale) ==
  <<drag.offsetX + DivScale(x - drag.startX, 1), drag.offsetY + DivScale(y - drag.startY, 1)>>

(* the pan branch of the active-drag listener (main.ts 1280-1281) *)
PanOffset(drag, x, y, scale) ==
  <<drag.offsetX + DivScale(x - drag.startX, scale),
    drag.offsetY + DivScale(y - drag.startY, scale)>>

(* the displacement added to where the node is now *)
DraggedPosAccumulating(drag, n, x, y, scale, pos) ==
  <<pos[n][1] + DivScale(x - drag.startX, scale),
    pos[n][2] + DivScale(y - drag.startY, scale)>>

(* the node branch of the active-drag listener (main.ts 1285-1290) *)
DraggedPos(drag, n, x, y, scale, pos) ==
  <<drag.nodes[n][1] + DivScale(x - drag.startX, scale),
    drag.nodes[n][2] + DivScale(y - drag.startY, scale)>>

(* First listener: the owning pointer of the active drag moves. *)
ActiveDragMove(p, x, y) ==
  /\ IF activeDrag.mode = "pan"
     THEN /\ dsOffset' = PanOffset(activeDrag, x, y, dsScale)
          /\ tabs' = SaveActiveTabView(tabs, activeTabId, dsOffset', dsScale)
          /\ UNCHANGED nodePos
     ELSE /\ nodePos' = [n \in DOMAIN nodePos |->
                           IF activeDrag.live /\ n \in DOMAIN activeDrag.nodes
                           THEN DraggedPos(activeDrag, n, x, y, dsScale, nodePos)
                           ELSE nodePos[n]]
          /\ UNCHANGED <<dsOffset, tabs>>
  /\ UNCHANGED <<gestureVars, overlayInteracting, dsScale, graphNodes, graphHasGroup,
                 selected_nodes, selected_group, panelVars, activeTabId, reads, opened,
                 status, envVars>>

(* the promotion test without the overlay check of line 1332 *)
PromoteDespiteOverlay(p, x, y) ==
  ExceedsThreshold(x, y, dragCandidate.startX, dragCandidate.startY)

(* the promotion listener's test once the candidate is this pointer's and *)
(* no drag is active (main.ts 1328-1332)                                  *)
Promote(p, x, y) ==
  /\ ExceedsThreshold(x, y, dragCandidate.startX, dragCandidate.startY)
  /\ ~overlayInteracting

ClickMovedInclusive(p, x, y) ==
  /\ emptyClickCandidate # Null
  /\ p = emptyClickCandidate.pointerId
  /\ DistSq(x, y, emptyClickCandidate.x, emptyClickCandidate.y) >= 9

(* the empty-click move listener's test (main.ts 1373-1377) *)
ClickMoved(p, x, y) ==
  /\ emptyClickCandidate # Null
  /\ p = emptyClickCandidate.pointerId
  /\ DistSq(x, y, emptyClickCandidate.x, emptyClickCandidate.y) > 9

(* Second and third listener: promote the candidate, or let the          *)
(* empty-click listener see the move.                                     *)
CandidateMove(p, x, y) ==
  IF dragCandidate # Null /\ p = dragCandidate.pointerId /\ activeDrag = Null
     /\ Promote(p, x, y)
  THEN /\ activeDrag' = IF dragCandidate.mode = "node"
                        THEN BeginNodeDrag(p, dragCandidate.startX, dragCandidate.startY)
                        ELSE BeginPan(p, dragCandidate.startX, dragCandidate.startY)
       /\ cursor' = CanvasCursor(activeDrag', spaceDown)
       /\ dragCandidate' = Null
       /\ emptyClickCandidate' = Null
       /\ UNCHANGED <<spaceDown, overlayInteracting, viewVars, graphVars, panelVars,
                      tabVars, pressed, zooms>>
  ELSE /\ emptyClickCandidate' = IF ClickMoved(p, x, y) THEN Null ELSE emptyClickCandidate
       /\ UNCHANGED <<spaceDown, dragCandidate, activeDrag, cursor, overlayInteracting,
                      viewVars, graphVars, panelVars, tabVars, envVars>>

(* The positions a move of pointer p is tried at: a displacement from     *)
(* Deltas off the start point of a gesture record that p owns.           *)
Starts(p) ==
  {<<r.startX, r.startY>> : r \in {r \in {dragCandidate, activeDrag} :
                                     r # Null /\ r.pointerId = p}}
  \cup {<<r.x, r.y>> : r \in {r \in {emptyClickCandidate} : r # Null /\ r.pointerId = p}}

MovePts(p) == {<<s[1] + d[1], s[2] + d[2]>> : s \in Starts(p), d \in Deltas}

PointerMove(p, x, y) ==
  /\ <<x, y>> \in MovePts(p)
  /\ ev' = Event("pointermove", p, x, y, 0)
  /\ UNCHANGED <<colorVars, paramVars, zoomVars, fileVars>>
  /\ IF activeDrag # Null /\ p = activeDrag.pointerId
     THEN ActiveDragMove(p, x, y)
     ELSE CandidateMove(p, x, y)

(* -------------------- canvas: pointerup / pointercancel --------------- *)
(* the owner's branch alone: an early return for every other pointer *)
TerminateDragOnly(p) ==
  IF activeDrag # Null /\ p = activeDrag.pointerId
  THEN /\ activeDrag' = Null
       /\ dragCandidate' = Null
       /\ cursor' = CanvasCursor(Null, spaceDown)
  ELSE UNCHANGED <<dragCandidate, activeDrag, cursor>>

(* the termination listeners (main.ts 1398-1428), shared by up and cancel *)
Terminate(p) ==
  IF activeDrag # Null /\ p = activeDrag.pointerId
  THEN /\ activeDrag' = Null
       /\ dragCandidate' = Null
       /\ cursor' = CanvasCursor(Null, spaceDown)
  ELSE /\ dragCandidate' = IF dragCandidate # Null /\ p = dragCandidate.pointerId
                           THEN Null ELSE dragCandidate
       /\ UNCHANGED <<activeDrag, cursor>>

(* whether the termination listener stops the event before the engine *)
StopsAtTermination(p) == activeDrag # Null /\ p = activeDrag.pointerId

(* the empty-click pointerup listener's guard (main.ts 1385-1386) *)
FiresClick(p) == emptyClickCandidate # Null /\ p = emptyClickCandidate.pointerId

PointerUp(p) ==
  /\ p \in pressed
  /\ pressed' = pressed \ {p}
  /\ ev' = Event("pointerup", p, 0, 0, 0)
  /\ UNCHANGED <<colorVars, paramVars, zoomVars, fileVars>>
  /\ IF FiresClick(p)
     THEN /\ emptyClickCandidate' = Null
          /\ selected_nodes' = {}
          /\ selected_group' = FALSE
          /\ SetPanel(ShowActiveTabSummary(Panel, tabs, activeTabId))
     ELSE /\ selected_group' = IF StopsAtTermination(p) THEN selected_group ELSE FALSE
          /\ UNCHANGED <<emptyClickCandidate, selected_nodes, panelVars>>
  /\ Terminate(p)
  /\ UNCHANGED <<spaceDown, overlayInteracting, viewVars, graphNodes, graphHasGroup,
                 nodePos, tabVars, zooms>>

PointerCancel(p) ==
  /\ p \in pressed
  /\ pressed' = pressed \ {p}
  /\ ev' = Event("pointercancel", p, 0, 0, 0)
  /\ UNCHANGED <<colorVars, paramVars, zoomVars, fileVars>>
  /\ Terminate(p)
  /\ UNCHANGED <<spaceDown, emptyClickCandidate, overlayInteracting, viewVars,
                 graphVars, panelVars, tabVars, zooms>>

(* A button released where the canvas does not get the event: outside the *)
(* canvas or the window, possible only while the pointer is not captured. *)
PointerUpElsewhere(p) ==
  /\ p \in pressed
  /\ ~Captured(p)
  /\ pressed' = pressed \ {p}
  /\ ev' = Event("pointerup-elsewhere", p, 0, 0, 0)
  /\ UNCHANGED <<colorVars, paramVars, zoomVars, fileVars>>
  /\ UNCHANGED <<gestureVars, overlayInteracting, viewVars, graphVars, panelVars,
                 tabVars, zooms>>

Blur ==
  /\ ev' = Event("blur", 0, 0, 0, 0)
  /\ UNCHANGED <<colorVars, paramVars, zoomVars, fileVars>>
  /\ spaceDown' = FALSE
  /\ dragCandidate' = Null
  /\ activeDrag' = Null
  /\ cursor' = CanvasCursor(activeDrag', spaceDown')
  /\ UNCHANGED <<emptyClickCandidate, overlayInteracting, viewVars, graphVars,
                 panelVars, tabVars, pressed, zooms>>

KeyDownSpace ==
  /\ ev' = Event("keydown", 0, 0, 0, 0)
  /\ UNCHANGED <<colorVars, paramVars, zoomVars, fileVars>>
  /\ spaceDown' = TRUE
  /\ cursor' = CanvasCursor(activeDrag, TRUE)
  /\ UNCHANGED <<emptyClickCandidate, dragCandidate, activeDrag, overlayInteracting,
                 viewVars, graphVars, panelVars, tabVars, envVars>>

KeyUpSpace ==
  /\ ev' = Event("keyup", 0, 0, 0, 0)
  /\ UNCHANGED <<colorVars, paramVars, zoomVars, fileVars>>
  /\ spaceDown' = FALSE
  /\ cursor' = IF activeDrag = Null THEN CanvasCursor(activeDrag, FALSE) ELSE cursor
  /\ UNCHANGED <<emptyClickCandidate, dragCandidate, activeDrag, overlayInteracting,
                 viewVars, graphVars, panelVars, tabVars, envVars>>

(* zoomByFactor's nextScale = min(4, max(0.1, scale * factor)), for a     *)
(* factor num/den whose product with the scale is a whole number >= 1     *)
NextScale(scale, num, den) ==
  IF scale * num > MAX_SCALE * den THEN MAX_SCALE ELSE (scale * num) \div den

(* DragAndScale.changeScale of the engine: the zoom centre stays put *)
ChangeScaleOffset(offset, scale, next, cx, cy) ==
  IF next = scale THEN offset
  ELSE <<offset[1] + DivScale(cx, next) - DivScale(cx, scale),
         offset[2] + DivScale(cy, next) - DivScale(cy, scale)>>

(* The wheel listener with a deltaY whose factor ZOOM_STEP^(-deltaY/60)   *)
(* is num/den (2 or 1/2), the pointer at client (x, y).                   *)
Wheel(x, y, num, den) ==
  /\ zooms' = zooms + 1
  /\ (dsScale * num) % den = 0
  /\ dsScale * num >= den
  /\ ev' = Event("wheel", 0, x, y, 0)
  /\ UNCHANGED <<colorVars, paramVars, zoomVars, fileVars>>
  /\ dsScale' = NextScale(dsScale, num, den)
  /\ dsOffset' = ChangeScaleOffset(dsOffset, dsScale, dsScale', x, y)
  /\ tabs' = SaveActiveTabView(tabs, activeTabId, dsOffset', dsScale')
  /\ UNCHANGED <<gestureVars, overlayInteracting, graphVars, panelVars, activeTabId,
                 reads, opened, status, pressed>>

(* --------------------------- overlay sync loop ------------------------ *)
(* a tick that requests the next frame whether or not the loop is stopped *)
TickAlwaysReschedules(P, pos, offset, scale, interacting) ==
  UpdateNodeOverlay(P, pos, offset, scale, interacting)

(* the pending tick callbacks run: each returns at once when the loop has  *)
(* been stopped, else updates the overlay and requests the next frame      *)
Tick(P, pos, offset, scale, interacting) ==
  IF ~P.overlaySyncRunning THEN [P EXCEPT !.overlayTicks = 0]
  ELSE UpdateNodeOverlay(P, pos, offset, scale, interacting)

(* one animation frame for which a tick of startOverlaySync is pending *)
OverlayFrame ==
  /\ overlayTicks > 0
  /\ ev' = Event("frame", 0, 0, 0, 0)
  /\ UNCHANGED <<colorVars, paramVars, zoomVars, fileVars>>
  /\ SetPanel(Tick(Panel, nodePos, dsOffset, dsScale, overlayInteracting))
  /\ UNCHANGED <<gestureVars, overlayInteracting, viewVars, graphVars, tabVars, envVars>>

(* ------------------- overlay items: pointer handlers ------------------ *)
(* installOverlayInteractionHandlers: the events stop at the overlay item *)
OverlayPointerDown(p) ==
  /\ nodeOverlayVisible /\ overlayLayout
  /\ p \notin pressed
  /\ pressed' = pressed \cup {p}
  /\ ev' = Event("overlay-pointerdown", p, 0, 0, 0)
  /\ UNCHANGED <<colorVars, paramVars, zoomVars, fileVars>>
  /\ overlayInteracting' = TRUE
  /\ UNCHANGED <<gestureVars, viewVars, graphVars, panelVars, tabVars, zooms>>

OverlayPointerUp(p, cancel) ==
  /\ nodeOverlayVisible /\ overlayLayout
  /\ p \in pressed
  /\ ~Captured(p)
  /\ pressed' = pressed \ {p}
  /\ ev' = Event(IF cancel THEN "overlay-pointercancel" ELSE "overlay-pointerup", p, 0, 0, 0)
  /\ UNCHANGED <<colorVars, paramVars, zoomVars, fileVars>>
  /\ overlayInteracting' = FALSE
  /\ UNCHANGED <<gestureVars, viewVars, graphVars, panelVars, tabVars, zooms>>

(* --------------------------------- tabs ------------------------------- *)
TabIds(tt) == {tt[i].id : i \in 1..Len(tt)}
IndexOf(tt, id) == CHOOSE i \in 1..Len(tt) : tt[i].id = id
(* a minimum that is its second argument *)
MinTakingSecond(a, b) == b

(* Math.min *)
Min(a, b) == IF a < b THEN a ELSE b

(* fitToContent: the view the engine (or the catch branch) ends with *)
FitView == [offset |-> <<0, 0>>, scale |-> 1]

(* graph.clear(): the captured node objects of a node drag leave the graph *)
Detach(drag) == IF drag.mode = "node" THEN [drag EXCEPT !.live = FALSE] ELSE drag

(* loadWorkflowIntoGraph: the slot types and the base types registered,   *)
(* graph.clear(), graph.configure(workflow)                               *)
LoadWorkflowIntoGraph(path) ==
  /\ link_type_colors' =
       RegisterBaseTypes(RegisterWorkflowTypeColors(link_type_colors,
                                                    WorkflowSlotTypes(path)))
  /\ graphNodes' = WorkflowNodes(path)
  /\ graphHasGroup' = WorkflowHasGroup(path)
  /\ nodePos' = [n \in WorkflowNodes(path) |-> WorkflowPos(n)]
  /\ selected_nodes' = {}
  /\ selected_group' = FALSE
  /\ activeDrag' = Detach(activeDrag)

(* activateTab returning at once whatever the id *)
ActivateTabReturnsEarly(tt, cur, id) ==
  /\ tabs' = tt
  /\ activeTabId' = cur
  /\ UNCHANGED <<status, panelVars, graphVars, viewVars, activeDrag, link_type_colors>>

(* activateTab without its first line: the active tab is loaded again *)
ActivateTabWithoutReturn(tt, cur, id) ==
  LET saved == SaveActiveTabView(tt, cur, dsOffset, dsScale)
      tab == GetActiveTab(saved, id)
      view == IF tab.view # Null THEN tab.view ELSE FitView
  IN /\ activeTabId' = id
     /\ status' = [kind |-> "Loaded", path |-> tab.sourcePath]
     /\ SetPanel(ShowActiveTabSummary(Panel, saved, id))
     /\ LoadWorkflowIntoGraph(tab.sourcePath)
     /\ dsOffset' = view.offset
     /\ dsScale' = view.scale
     /\ tabs' = SaveActiveTabView(saved, id, view.offset, view.scale)

(* activateTab(id) called with the tab list tt and the active id cur *)
ActivateTab(tt, cur, id) ==
  IF cur = id
  THEN /\ tabs' = tt
       /\ activeTabId' = cur
       /\ UNCHANGED <<status, panelVars, graphVars, viewVars, activeDrag, link_type_colors>>
  ELSE LET saved == SaveActiveTabView(tt, cur, dsOffset, dsScale)
           tab == GetActiveTab(saved, id)
           view == IF tab.view # Null THEN tab.view ELSE FitView
       IN /\ activeTabId' = id
          /\ status' = [kind |-> "Loaded", path |-> tab.sourcePath]
          /\ SetPanel(ShowActiveTabSummary(Panel, saved, id))
          /\ LoadWorkflowIntoGraph(tab.sourcePath)
          /\ dsOffset' = view.offset
          /\ dsScale' = view.scale
          /\ tabs' = SaveActiveTabView(saved, id, view.offset, view.scale)

(* only the active tab is compared with the requested path *)
HasTabActiveOnly(tt, path) ==
  \E i \in 1..Len(tt) : tt[i].id = activeTabId /\ tt[i].sourcePath = path

(* the tabs.find of openWorkflowInNewTab: is there a tab, and the first one *)
HasTab(tt, path) == \E i \in 1..Len(tt) : tt[i].sourcePath = path

FindTab(tt, path) ==
  tt[CHOOSE i \in 1..Len(tt) :
       /\ tt[i].sourcePath = path
       /\ \A j \in 1..(i - 1) : tt[j].sourcePath # path]

(* an open request that can still be served: it creates no tab, or fewer   *)
(* than max tabs have been created or are being read                       *)
CanOpen(path, max) ==
  \/ \E i \in 1..Len(tabs) : tabs[i].sourcePath = path
  \/ opened + reads[1] + reads[2] < max

(* openWorkflowInNewTab up to its await: an open tab is activated, else   *)
(* the file read is issued                                                *)
OpenPath(path) ==
  /\ ev' = Event("open-path", 0, path, 0, 0)
  /\ UNCHANGED <<registered, paramVars, zoomVars, fileVars>>
  /\ IF HasTab(tabs, path)
     THEN /\ ActivateTab(tabs, activeTabId, FindTab(tabs, path).id)
          /\ UNCHANGED <<reads, opened>>
     ELSE /\ reads' = [reads EXCEPT ![path] = @ + 1]
          /\ status' = [kind |-> "Loading", path |-> path]
          /\ UNCHANGED <<tabs, activeTabId, opened, panelVars, graphVars, viewVars,
                         activeDrag, link_type_colors>>
  /\ UNCHANGED <<spaceDown, emptyClickCandidate, dragCandidate, cursor,
                 overlayInteracting, envVars>>

(* a payload that is ok whatever the file holds *)
LoadWorkflowFromFileAlwaysOk(path, readable) == [ok |-> TRUE, sourcePath |-> path]

(* loadWorkflowFromFile of the main process: the payload for a file that   *)
(* can (readable) or cannot be read and parsed as a workflow               *)
LoadWorkflowFromFile(path, readable) == [ok |-> readable, sourcePath |-> path]

(* openWorkflowInNewTab after its await: the loader's payload arrives *)
ReadDone(path, ok) ==
  /\ reads[path] > 0
  /\ reads' = [reads EXCEPT ![path] = @ - 1]
  /\ ev' = Event("read-done", 0, path, 0, IF ok THEN 1 ELSE 0)
  /\ UNCHANGED <<registered, paramVars, zoomVars, fileVars>>
  /\ LET payload == LoadWorkflowFromFile(path, ok)
     IN IF ~payload.ok
        THEN /\ status' = [kind |-> "Error", path |-> path]
             /\ UNCHANGED <<tabs, activeTabId, opened, panelVars, graphVars, viewVars,
                            activeDrag, link_type_colors>>
        ELSE /\ opened' = opened + 1
             /\ ActivateTab(Append(tabs, [id |-> opened + 1,
                                          sourcePath |-> payload.sourcePath,
                                          view |-> Null]),
                            activeTabId, opened + 1)
  /\ UNCHANGED <<spaceDown, emptyClickCandidate, dragCandidate, cursor,
                 overlayInteracting, envVars>>

(* closeTab(id): the tab's close button, or the close-tab command *)
CloseTabById(id) ==
  IF id \notin TabIds(tabs)
  THEN UNCHANGED <<tabs, activeTabId, status, panelVars, graphVars, viewVars,
                      activeDrag, link_type_colors>>
  ELSE
  LET index == IndexOf(tabs, id)
      rest == SelectSeq(tabs, LAMBDA t : t.id # id)
  IN IF Len(rest) = 0
     THEN /\ tabs' = rest
          /\ activeTabId' = 0
          /\ details' = NoDetails
          /\ status' = [kind |-> "Ready", path |-> 0]
          /\ graphNodes' = {}
          /\ graphHasGroup' = FALSE
          /\ nodePos' = <<>>
          /\ selected_nodes' = {}
          /\ selected_group' = FALSE
          /\ activeDrag' = Detach(activeDrag)
          /\ UNCHANGED <<selectedNode, nodeOverlayVisible, overlaySyncRunning,
                         overlayTicks, overlayLayout, lastOverlayLayout, viewVars,
                         link_type_colors>>
     ELSE IF activeTabId = id
     THEN ActivateTab(rest, 0, rest[Min(index, Len(rest))].id)
     ELSE /\ tabs' = rest
          /\ UNCHANGED <<activeTabId, status, panelVars, graphVars, viewVars,
                         activeDrag, link_type_colors>>

(* the close button of a tab *)
CloseTab(id) ==
  /\ id \in TabIds(tabs)
  /\ ev' = Event("close-tab", 0, id, 0, 0)
  /\ UNCHANGED <<registered, paramVars, zoomVars, fileVars>>
  /\ CloseTabById(id)
  /\ UNCHANGED <<spaceDown, emptyClickCandidate, dragCandidate, cursor,
                 overlayInteracting, reads, opened, envVars>>

(* onCommand 'close-tab': if (activeTabId) closeTab(activeTabId) *)
CommandCloseTab ==
  /\ ev' = Event("cmd-close-tab", 0, 0, 0, 0)
  /\ UNCHANGED <<registered, paramVars, zoomVars, fileVars>>
  /\ IF activeTabId # 0 THEN CloseTabById(activeTabId)
     ELSE UNCHANGED <<tabs, activeTabId, status, panelVars, graphVars, viewVars,
                     activeDrag, link_type_colors>>
  /\ UNCHANGED <<spaceDown, emptyClickCandidate, dragCandidate, cursor,
                 overlayInteracting, reads, opened, envVars>>

(* fitToContent with a catch branch that swallows the exception only *)
FitToContentWithoutReset(raised, offset, scale) ==
  IF raised THEN [offset |-> offset, scale |-> scale] ELSE FitView

(* fitToContent: canvas.fitNodes() returns, leaving the engine's fitted    *)
(* view, or raises, and the catch branch sets zoom 1 and offset (0, 0)     *)
FitToContent(raised, offset, scale) ==
  IF raised THEN [offset |-> <<0, 0>>, scale |-> 1] ELSE FitView

(* the fit button and onCommand 'fit': fitToContent(), saveActiveTabView(); *)
(* x of the event records whether canvas.fitNodes() raised                 *)
CommandFit(raised) ==
  /\ ev' = Event("cmd-fit", 0, IF raised THEN 1 ELSE 0, 0, 0)
  /\ UNCHANGED <<colorVars, paramVars, zoomVars, fileVars>>
  /\ dsOffset' = FitToContent(raised, dsOffset, dsScale).offset
  /\ dsScale' = FitToContent(raised, dsOffset, dsScale).scale
  /\ tabs' = SaveActiveTabView(tabs, activeTabId, dsOffset', dsScale')
  /\ UNCHANGED <<gestureVars, overlayInteracting, graphVars, panelVars, activeTabId,
                 reads, opened, status, envVars>>

(* cycleTab(direction): the next-tab / prev-tab commands *)
CycleTab(direction) ==
  /\ ev' = Event("cycle-tab", 0, direction, 0, 0)
  /\ UNCHANGED <<registered, paramVars, zoomVars, fileVars>>
  /\ IF Len(tabs) = 0
     THEN UNCHANGED <<tabs, activeTabId, status, panelVars, graphVars, viewVars,
                      activeDrag, link_type_colors>>
     ELSE LET currentIndex == IF activeTabId # 0 /\ activeTabId \in TabIds(tabs)
                              THEN IndexOf(tabs, activeTabId) - 1 ELSE -1
              nextIndex == IF currentIndex < 0 THEN 0
                           ELSE (currentIndex + direction + Len(tabs)) % Len(tabs)
          IN ActivateTab(tabs, activeTabId, tabs[nextIndex + 1].id)
  /\ UNCHANGED <<spaceDown, emptyClickCandidate, dragCandidate, cursor,
                 overlayInteracting, reads, opened, envVars>>

(* a click on a tab button *)
TabClick(id) ==
  /\ id \in TabIds(tabs)
  /\ ev' = Event("tab-click", 0, id, 0, 0)
  /\ UNCHANGED <<registered, paramVars, zoomVars, fileVars>>
  /\ ActivateTab(tabs, activeTabId, id)
  /\ UNCHANGED <<spaceDown, emptyClickCandidate, dragCandidate, cursor,
                 overlayInteracting, reads, opened, envVars>>

(* ------------------------------ the system ---------------------------- *)
(* The gesture specification: one document, two pointers, every pointer,  *)
(* key, focus and overlay event, the tab opened and closed.  The zoom     *)
(* scale stays 1 and one node at a time is selected.  Presses (client px) *)
(* land on empty space, node 1's title bar, node 1's body and the group's *)
(* drag handle.                                                           *)
GestureDownPts == {<<0, 0>>, <<30, 20>>, <<30, 50>>, <<10, 110>>}

Next ==
  \/ \E p \in Pointers, b \in Buttons, pt \in GestureDownPts :
       PointerDown(p, b, pt[1], pt[2], FALSE)
  \/ \E p \in Pointers : \E pt \in MovePts(p) :
       PointerMove(p, pt[1], pt[2]) /\ WithinShift(MaxDrift)'
  \/ \E p \in Pointers : PointerUp(p)
  \/ \E p \in Pointers : PointerCancel(p)
  \/ \E p \in Pointers : PointerUpElsewhere(p)
  \/ Blur
  \/ KeyDownSpace
  \/ KeyUpSpace
  \/ \E p \in Pointers : OverlayPointerDown(p)
  \/ \E p \in Pointers, cancel \in BOOLEAN : OverlayPointerUp(p, cancel)
  \/ OverlayFrame
  \/ \E path \in Paths : CanOpen(path, MaxOpens) /\ OpenPath(path)
  \/ \E path \in Paths, ok \in BOOLEAN : ReadDone(path, ok)
  \/ \E id \in 1..MaxOpens : CloseTab(id)

Spec == Init /\ [][Next]_vars

(* The view specification: one document, one pointer, wheel zoom and      *)
(* presses that add to the selection, so that drags happen at more than   *)
(* one zoom scale and carry more than one node.  Presses (client px) land *)
(* on empty space and on the title bars of node 1 and node 2 (at scale 2  *)
(* the last lands on node 1's title bar).                                 *)
ViewPointers == {1}
ViewDownPts == {<<0, 0>>, <<30, 20>>, <<70, 20>>}

NextView ==
  \/ \E p \in ViewPointers, b \in Buttons, pt \in ViewDownPts, shift \in BOOLEAN :
       PointerDown(p, b, pt[1], pt[2], shift)
  \/ \E p \in ViewPointers : \E pt \in MovePts(p) :
       PointerMove(p, pt[1], pt[2]) /\ WithinShift(MaxShift)'
  \/ \E p \in ViewPointers : PointerUp(p)
  \/ \E pt \in WheelPts, f \in {<<2, 1>>, <<1, 2>>} :
       zooms < MaxZooms /\ Wheel(pt[1], pt[2], f[1], f[2]) /\ WithinShift(MaxShift)'
  \/ OverlayFrame
  \/ \E path \in Paths : CanOpen(path, MaxOpens) /\ OpenPath(path)
  \/ \E path \in Paths : ReadDone(path, TRUE)

SpecView == Init /\ [][NextView]_vars

(* The tab specification: two documents, up to MaxTabs tabs, open requests *)
(* that overlap their file reads, loads that fail, every tab command, and  *)
(* the view changed by wheel zoom and by a middle-button pan of pointer 1. *)
TabDownPts == {<<0, 0>>}

NextTabs ==
  \/ \E path \in TabPaths : CanOpen(path, MaxTabs) /\ OpenPath(path)
  \/ \E path \in TabPaths, ok \in BOOLEAN : ReadDone(path, ok)
  \/ \E id \in 1..MaxTabs : CloseTab(id)
  \/ \E direction \in {1, -1} : CycleTab(direction)
  \/ CommandCloseTab
  \/ \E raised \in BOOLEAN : CommandFit(raised)
  \/ \E id \in 1..MaxTabs : TabClick(id)
  \/ \E pt \in TabDownPts : PointerDown(1, 1, pt[1], pt[2], FALSE)
  \/ \E pt \in MovePts(1) : PointerMove(1, pt[1], pt[2]) /\ WithinShift(MaxShift)'
  \/ PointerUp(1)
  \/ \E pt \in WheelPts, f \in {<<2, 1>>, <<1, 2>>} :
       zooms < MaxZooms /\ Wheel(pt[1], pt[2], f[1], f[2]) /\ WithinShift(MaxShift)'

SpecTabs == Init /\ [][NextTabs]_vars

(* The closing specification: up to MaxClosable tabs (open requests may    *)
(* overlap their reads), tab buttons and close buttons, the close-tab      *)
(* command, a press on node 1 that selects it, and one wheel zoom.         *)
NextClose ==
  \/ \E path \in TabPaths : CanOpen(path, MaxClosable) /\ OpenPath(path)
  \/ \E path \in TabPaths : ReadDone(path, TRUE)
  \/ \E id \in 1..MaxClosable : CloseTab(id)
  \/ CommandCloseTab
  \/ \E id \in 1..MaxClosable : TabClick(id)
  \/ PointerDown(1, 0, 30, 20, FALSE)
  \/ PointerUp(1)
  \/ zooms < MaxZooms /\ Wheel(0, 0, 2, 1) /\ WithinShift(MaxShift)'

SpecClose == Init /\ [][NextClose]_vars

(* The overlay specification: one document, one pointer that presses and   *)
(* releases on empty space, on node 1 (which has a parameter overlay), on  *)
(* node 2 (which has none) and on the overlay's items, wheel zoom, and the *)
(* animation frames.  A frame is delivered whenever a tick is pending:     *)
(* requestAnimationFrame calls every callback it has accepted.             *)
OverlayDownPts == {<<0, 0>>, <<30, 20>>, <<70, 20>>}

NextOverlay ==
  \/ \E pt \in OverlayDownPts : PointerDown(1, 0, pt[1], pt[2], FALSE)
  \/ PointerUp(1)
  \/ PointerUpElsewhere(1)
  \/ OverlayPointerDown(1)
  \/ \E cancel \in BOOLEAN : OverlayPointerUp(1, cancel)
  \/ OverlayFrame
  \/ \E pt \in WheelPts, f \in {<<2, 1>>, <<1, 2>>} :
       zooms < MaxZooms /\ Wheel(pt[1], pt[2], f[1], f[2]) /\ WithinShift(MaxShift)'
  \/ \E path \in Paths : CanOpen(path, MaxOpens) /\ OpenPath(path)
  \/ \E path \in Paths : ReadDone(path, TRUE)
  \/ \E id \in 1..MaxOpens : CloseTab(id)

SpecOverlay == Init /\ [][NextOverlay]_vars /\ WF_vars(OverlayFrame)

(* The promotion specification: one document, one pointer whose presses    *)
(* may add to the selection, moves within the drift window, and the tab's  *)
(* close button, which empties the selection under an armed candidate.     *)
NextPromote ==
  \/ \E pt \in ViewDownPts, shift \in BOOLEAN : PointerDown(1, 0, pt[1], pt[2], shift)
  \/ \E pt \in MovePts(1) : PointerMove(1, pt[1], pt[2]) /\ WithinShift(MaxShift)'
  \/ PointerUp(1)
  \/ \E path \in Paths : CanOpen(path, MaxOpens) /\ OpenPath(path)
  \/ \E path \in Paths : ReadDone(path, TRUE)
  \/ \E id \in 1..MaxOpens : CloseTab(id)

SpecPromote == Init /\ [][NextPromote]_vars

(* ------------------------- registering type colors -------------------- *)
(* one turn of registerWorkflowTypeColors' loop: the i-th type name is the *)
(* type of the slot                                                       *)
RegisterSlotType(i) ==
  /\ ev' = Event("register-type", 0, i, 0, 0)
  /\ link_type_colors' = EnsureTypeColors(link_type_colors, TypeNames[i])
  /\ registered' = registered + 1
  /\ UNCHANGED <<gestureVars, overlayInteracting, viewVars, graphVars, panelVars,
                 tabVars, paramVars, zoomVars, fileVars, envVars>>

(* the loop over the base types that follows it in loadWorkflowIntoGraph *)
RegisterBaseTypeColors ==
  /\ ev' = Event("register-base", 0, 0, 0, 0)
  /\ link_type_colors' = RegisterBaseTypes(link_type_colors)
  /\ UNCHANGED <<gestureVars, overlayInteracting, viewVars, graphVars, panelVars,
                 tabVars, registered, paramVars, zoomVars, fileVars, envVars>>

(* The color specification: the slot types of the documents loaded during  *)
(* the life of the process, registered one after the other in any order.   *)
NextColors ==
  \/ \E i \in 1..Len(TypeNames) : registered < MaxRegs /\ RegisterSlotType(i)
  \/ RegisterBaseTypeColors

SpecColors == Init /\ [][NextColors]_vars

(* ------------------------ decorating a node --------------------------- *)
(* installParamOverlay(node) for a node of a loaded document: the node's  *)
(* parameter list is computed once and kept on the node                   *)
InstallParamOverlay(n, frame) ==
  /\ ev' = Event("install-params", 0, 0, 0, 0)
  /\ viewerNode' = n
  /\ viewerParams' = buildViewerParams(n)
  /\ viewerFrame' = GrowNodeHeight(viewerParams', frame)
  /\ UNCHANGED <<gestureVars, overlayInteracting, viewVars, graphVars, panelVars,
                 tabVars, colorVars, zoomVars, fileVars, envVars>>

(* The parameter specification: the nodes of the documents are decorated   *)
(* one after the other.                                                    *)
NextParams ==
  \E n \in NodesNextTo(viewerNode, MaxWidgets) : InstallParamOverlay(n, DefaultFrame)

SpecParams == Init /\ [][NextParams]_vars

(* The layout specification: nodes with up to MaxLaidOut widget values and *)
(* up to MaxSlots inputs and outputs, of either width and height or with a *)
(* size that is no array, are decorated one after the other; the next node *)
(* differs from the last in its values or in its slots and size.           *)
NextLayout ==
  \/ \E k \in 0..MaxLaidOut, mix \in Mixes, height \in FrameHeights :
       InstallParamOverlay(LaidOutNode(k, mix),
                           Frame(viewerFrame.inputs, viewerFrame.outputs,
                                 IF viewerFrame.size = NoSize THEN NoSize
                                 ELSE Size(viewerFrame.size.width, height)))
  \/ \E inputs \in 0..MaxSlots, outputs \in 0..MaxSlots,
        size \in {NoSize} \cup {Size(w, h) : w \in FrameWidths, h \in FrameHeights} :
       InstallParamOverlay(viewerNode, Frame(inputs, outputs, size))

SpecLayout == Init /\ [][NextLayout]_vars

(* ------------------------------- zooming ------------------------------ *)
(* zoomByFactor for the factor ZOOM_STEP^k, the scale taken over its      *)
(* whole range: the scale asked for and the scale the engine then has.    *)
(* (What the change of scale does to the offset is Wheel's.)              *)
ZoomByFactor(k) ==
  /\ zoomRequested' = ZoomNextScale(zoomScale, k)
  /\ zoomScale' = zoomRequested'
  /\ zoomTrail' = Remember(zoomTrail, zoomScale, k)

(* the wheel listener: a deltaY of 0 returns at once *)
ZoomWheel(dy) ==
  /\ ev' = Event("zoom-wheel", 0, dy, 0, 0)
  /\ IF dy = 0 THEN UNCHANGED zoomVars ELSE ZoomByFactor(WheelFactorExp(dy))
  /\ UNCHANGED <<gestureVars, overlayInteracting, viewVars, graphVars, panelVars,
                 tabVars, colorVars, paramVars, fileVars, envVars>>

(* onCommand: zoom-in is zoomByFactor(ZOOM_STEP), zoom-out is             *)
(* zoomByFactor(1 / ZOOM_STEP)                                            *)
ZoomCommand(command) ==
  /\ ev' = Event(command, 0, 0, 0, 0)
  /\ ZoomByFactor(IF command = "zoom-in" THEN 1 ELSE 0 - 1)
  /\ UNCHANGED <<gestureVars, overlayInteracting, viewVars, graphVars, panelVars,
                 tabVars, colorVars, paramVars, fileVars, envVars>>

(* resetView: canvas.setZoom(1) *)
ZoomReset ==
  /\ ev' = Event("reset-view", 0, 0, 0, 0)
  /\ zoomScale' = UnitScale
  /\ zoomTrail' = <<>>
  /\ UNCHANGED zoomRequested
  /\ UNCHANGED <<gestureVars, overlayInteracting, viewVars, graphVars, panelVars,
                 tabVars, colorVars, paramVars, fileVars, envVars>>

(* fitToContent: canvas.fitNodes() leaves the scale the engine picks *)
ZoomFit(scale) ==
  /\ ev' = Event("fit", 0, 0, 0, 0)
  /\ zoomScale' = scale
  /\ zoomTrail' = <<>>
  /\ UNCHANGED zoomRequested
  /\ UNCHANGED <<gestureVars, overlayInteracting, viewVars, graphVars, panelVars,
                 tabVars, colorVars, paramVars, fileVars, envVars>>

(* The zoom specification: wheel events and zoom commands in any order,    *)
(* between scales set by the engine.                                       *)
NextZoom ==
  \/ \E dy \in WheelDeltas : ZoomWheel(dy)
  \/ \E command \in {"zoom-in", "zoom-out"} : ZoomCommand(command)
  \/ ZoomReset
  \/ \E scale \in FitScales : ZoomFit(scale)

SpecZoom == Init /\ [][NextZoom]_vars

(* --------------------------- reading a file --------------------------- *)
(* the 'workflow:read-file' handler of the main process *)
ReadFile(file) ==
  /\ ev' = Event("read-file", 0, 0, 0, 0)
  /\ loadedFile' = file
  /\ loadResult' = LoadFile(file)
  /\ UNCHANGED <<gestureVars, overlayInteracting, viewVars, graphVars, panelVars,
                 tabVars, colorVars, paramVars, zoomVars, envVars>>

(* The loader specification: the files are read one after the other. *)
NextFiles == \E file \in FilesNextTo(loadedFile, MaxChunks) : ReadFile(file)

SpecFiles == Init /\ [][NextFiles]_vars

(* ====================================================================== *)
(* The gesture state machine: properties of single events, stated over the *)
(* state an event arrives in (unprimed) and the state it leaves (primed).  *)
(* ====================================================================== *)

(* C1: while a drag candidate exists and no drag is active, a pointer-move *)
(* of the candidate's pointer whose squared displacement from the          *)
(* candidate's start point is below 9 px^2 creates no active drag and      *)
(* leaves the candidate armed as it was; holding on every step, this       *)
(* covers every sequence of such moves.                                    *)
C1_BelowThresholdKeepsCandidate ==
  [][(/\ dragCandidate # Null
      /\ activeDrag = Null
      /\ ev'.type = "pointermove"
      /\ ev'.pointerId = dragCandidate.pointerId
      /\ DistSq(ev'.x, ev'.y, dragCandidate.startX, dragCandidate.startY)
           < DRAG_THRESHOLD_SQ)
     => (activeDrag' = Null /\ dragCandidate' = dragCandidate)]_vars

(* a node candidate's pointer has just moved 2 px on both axes *)
C1_Witness ==
  /\ ev.type = "pointermove"
  /\ ev.candOwner = ev.pointerId
  /\ ev.dragOwner = 0
  /\ dragCandidate # Null
  /\ dragCandidate.mode = "node"
  /\ dragCandidate.pointerId = ev.pointerId
  /\ DistSq(ev.x, ev.y, dragCandidate.startX, dragCandidate.startY) = 8
  /\ activeDrag = Null

C3_DownArmsCandidate ==
  [][(/\ ev'.type = "pointerdown"
      /\ ev'.button = 0
      /\ ~spaceDown
      /\ activeDrag = Null)
     => LET c == ConvertEventToCanvasOffset(ev'.x, ev'.y, dsOffset, dsScale)
            node == GetNodeOnPos(c, graphNodes, nodePos)
            group == GetGroupOnPos(c, graphHasGroup)
            inTitle == /\ node # NoNode
                       /\ nodePos[node][1] <= c[1]
                       /\ c[1] <= nodePos[node][1] + NodeSize(node)[1]
                       /\ nodePos[node][2] - 4 * NODE_TITLE_HEIGHT <= c[2]
                       /\ c[2] <= nodePos[node][2]
            nodeCase == node # NoNode /\ node \in selected_nodes /\ inTitle
            emptyCase == node = NoNode /\ ~group
            armed(mode) == [mode |-> mode, pointerId |-> ev'.pointerId,
                            startX |-> ev'.x, startY |-> ev'.y]
        IN /\ nodeCase => dragCandidate' = armed("node")
           /\ emptyCase =>
                /\ dragCandidate' = armed("pan")
                /\ emptyClickCandidate' = [mode |-> "click", pointerId |-> ev'.pointerId,
                                           x |-> ev'.x, y |-> ev'.y]
           /\ (~nodeCase /\ ~emptyCase) => dragCandidate' = Null
           /\ ~emptyCase => emptyClickCandidate' = emptyClickCandidate]_vars

(* a press on the title bar of the node that was selected has just armed   *)
(* a node candidate                                                        *)
C3_Witness ==
  /\ ev.type = "pointerdown"
  /\ ev.button = 0
  /\ ev.dragOwner = 0
  /\ ev.selectedNode # NoNode
  /\ ~spaceDown
  /\ dragCandidate # Null
  /\ dragCandidate.mode = "node"
  /\ dragCandidate.pointerId = ev.pointerId
  /\ dragCandidate.startX = ev.x
  /\ dragCandidate.startY = ev.y

(* C4: a pointer-down with the middle button, or with the primary button   *)
(* while Space is held, enters activeDrag(pan) in that same event, at the  *)
(* pointer's position and with the current viewport offset, whatever is    *)
(* under the pointer; it leaves no drag candidate, arms no empty-click     *)
(* candidate, and nothing the later listeners or the engine would change   *)
(* (selection, side panel, view) changes.                                  *)
C4_ImmediatePan ==
  [][(/\ ev'.type = "pointerdown"
      /\ (ev'.button = 1 \/ (ev'.button = 0 /\ spaceDown)))
     => (/\ activeDrag' = [mode |-> "pan", pointerId |-> ev'.pointerId,
                           startX |-> ev'.x, startY |-> ev'.y,
                           offsetX |-> dsOffset[1], offsetY |-> dsOffset[2]]
         /\ dragCandidate' = Null
         /\ emptyClickCandidate' = emptyClickCandidate
         /\ UNCHANGED <<graphVars, panelVars, viewVars>>)]_vars

(* Space + primary button has just been pressed on the title bar of a      *)
(* selected node: a pan is active, the node stays selected                 *)
C4_Witness ==
  /\ ev.type = "pointerdown"
  /\ ev.button = 0
  /\ spaceDown
  /\ activeDrag.mode = "pan"
  /\ activeDrag.pointerId = ev.pointerId
  /\ activeDrag.startX = ev.x
  /\ activeDrag.startY = ev.y
  /\ LET c == ConvertEventToCanvasOffset(ev.x, ev.y, dsOffset, dsScale)
         node == GetNodeOnPos(c, graphNodes, nodePos)
     IN node # NoNode /\ node \in selected_nodes
  /\ dragCandidate = Null

(* C5: a press on empty space arms the empty-click candidate (C3); a move  *)
(* of its pointer whose squared displacement from the press does not       *)
(* exceed 9 px^2 keeps it armed (the pointer's drag candidate, if it has   *)
(* one, starting at the same press); and the pointer-up of its pointer     *)
(* then deselects every node and the selected group, clears the recorded   *)
(* selected node, hides the overlay, and leaves the detail panel showing   *)
(* the active tab's summary (the empty panel when no tab is open).         *)
C5_EmptyClickDeselects ==
  [][/\ (/\ emptyClickCandidate # Null
         /\ ev'.type = "pointermove"
         /\ ev'.pointerId = emptyClickCandidate.pointerId
         /\ DistSq(ev'.x, ev'.y, emptyClickCandidate.x, emptyClickCandidate.y)
              <= DRAG_THRESHOLD_SQ
         /\ (dragCandidate # Null /\ dragCandidate.pointerId = ev'.pointerId)
              => (/\ dragCandidate.startX = emptyClickCandidate.x
                  /\ dragCandidate.startY = emptyClickCandidate.y))
        => emptyClickCandidate' = emptyClickCandidate
     /\ (/\ emptyClickCandidate # Null
         /\ ev'.type = "pointerup"
         /\ ev'.pointerId = emptyClickCandidate.pointerId)
        => (/\ selected_nodes' = {}
            /\ selected_group' = FALSE
            /\ selectedNode' = NoNode
            /\ nodeOverlayVisible' = FALSE
            /\ overlaySyncRunning' = FALSE
            /\ emptyClickCandidate' = Null
            /\ details' = IF activeTabId \in TabIds(tabs)
                          THEN [kind |-> "summary",
                                of |-> tabs[IndexOf(tabs, activeTabId)].sourcePath]
                          ELSE NoDetails)]_vars

(* a node with its overlay shown was selected when the pointer-up of an    *)
(* empty-space click arrived, the pointer's press being the latest press;  *)
(* now nothing is selected and the panel shows the tab's summary           *)
C5_Witness ==
  /\ ev.type = "pointerup"
  /\ ev.candOwner = ev.pointerId
  /\ ev.selectedNode # NoNode
  /\ NodeHasParams(ev.selectedNode)
  /\ selected_nodes = {}
  /\ selectedNode = NoNode
  /\ ~nodeOverlayVisible
  /\ details.kind = "summary"
  /\ emptyClickCandidate = Null

(* C6 as stated: in every reachable state in which a pan is active there   *)
(* is no armed empty-click candidate that the pan's pointer-up could fire  *)
(* (none owned by the pan's pointer).                                      *)
C6_NoClickUnderPan ==
  activeDrag.mode = "pan"
    => ~(/\ emptyClickCandidate # Null
         /\ emptyClickCandidate.pointerId = activeDrag.pointerId)

(* C7: after a pointer-up or pointer-cancel delivered for the pointer that *)
(* owns the active drag, no active drag and no drag candidate exist; after *)
(* one for the pointer that owns only a drag candidate, that candidate no  *)
(* longer exists.                                                          *)
C7_UpOrCancelTerminates ==
  [][/\ (/\ ev'.type \in {"pointerup", "pointercancel"}
         /\ activeDrag # Null
         /\ ev'.pointerId = activeDrag.pointerId)
        => (activeDrag' = Null /\ dragCandidate' = Null)
     /\ (/\ ev'.type \in {"pointerup", "pointercancel"}
         /\ dragCandidate # Null
         /\ ev'.pointerId = dragCandidate.pointerId)
        => dragCandidate' = Null]_vars

(* the pointer that owned the active drag has just been released or       *)
(* cancelled                                                              *)
C7_Witness ==
  /\ ev.type \in {"pointerup", "pointercancel"}
  /\ ev.dragOwner = ev.pointerId
  /\ activeDrag = Null
  /\ dragCandidate = Null

(* C8 as stated: after the window loses focus there is no active drag, no  *)
(* drag candidate, no armed empty-click candidate, and Space is not held.  *)
C8_BlurResetsAll ==
  [][ev'.type = "blur"
     => (/\ activeDrag' = Null
         /\ dragCandidate' = Null
         /\ emptyClickCandidate' = Null
         /\ spaceDown' = FALSE)]_vars


(* ====================================================================== *)
(* Active drags: what a pointer-move of the owning pointer does.          *)
(* ====================================================================== *)

(* C9: while a pan is active, after every pointer-move of the owning       *)
(* pointer the viewport offset equals the offset captured at pan start     *)
(* plus (pointer position minus pan start position) divided by the current *)
(* zoom scale, and the active tab's saved view (when a tab is active)      *)
(* equals the viewport's current offset and scale.                         *)
C9_PanFollowsPointer ==
  [][(/\ activeDrag.mode = "pan"
      /\ ev'.type = "pointermove"
      /\ ev'.pointerId = activeDrag.pointerId)
     => (/\ dsOffset' =
              <<activeDrag.offsetX + (4 * (ev'.x - activeDrag.startX)) \div dsScale',
                activeDrag.offsetY + (4 * (ev'.y - activeDrag.startY)) \div dsScale'>>
         /\ activeTabId' \in TabIds(tabs')
              => tabs'[IndexOf(tabs', activeTabId')].view
                   = [offset |-> dsOffset', scale |-> dsScale'])]_vars

(* at zoom scale 2 the owner of a pan that was already active has just     *)
(* moved: the offset has left the captured one, the tab's view follows     *)
C9_Witness ==
  /\ ev.type = "pointermove"
  /\ ev.dragOwner = ev.pointerId
  /\ activeDrag.mode = "pan"
  /\ activeDrag.pointerId = ev.pointerId
  /\ dsScale = 2
  /\ dsOffset # <<activeDrag.offsetX, activeDrag.offsetY>>
  /\ activeTabId \in TabIds(tabs)
  /\ tabs[IndexOf(tabs, activeTabId)].view = [offset |-> dsOffset, scale |-> dsScale]

(* C10: while a node drag is active, after every pointer-move of the       *)
(* owning pointer each node captured at drag start (and still in the       *)
(* graph) is at its start position plus the displacement divided by the    *)
(* zoom scale, and the viewport offset, the zoom scale, the tabs' saved    *)
(* views and the positions of all other nodes are unchanged.               *)
C10_NodeDragMovesCaptured ==
  [][(/\ activeDrag.mode = "node"
      /\ activeDrag.live
      /\ ev'.type = "pointermove"
      /\ ev'.pointerId = activeDrag.pointerId)
     => (/\ DOMAIN nodePos' = DOMAIN nodePos
         /\ \A n \in DOMAIN nodePos :
              nodePos'[n] =
                IF n \in DOMAIN activeDrag.nodes
                THEN <<activeDrag.nodes[n][1]
                         + (4 * (ev'.x - activeDrag.startX)) \div dsScale,
                       activeDrag.nodes[n][2]
                         + (4 * (ev'.y - activeDrag.startY)) \div dsScale>>
                ELSE nodePos[n]
         /\ UNCHANGED <<dsOffset, dsScale, tabs>>)]_vars

(* at zoom scale 2 the owner of a drag of two nodes, already active, has   *)
(* just moved: both nodes have left their start positions by the same      *)
(* amount                                                                  *)
C10_Witness ==
  /\ ev.type = "pointermove"
  /\ ev.dragOwner = ev.pointerId
  /\ activeDrag.mode = "node"
  /\ activeDrag.pointerId = ev.pointerId
  /\ dsScale = 2
  /\ DOMAIN activeDrag.nodes = {1, 2}
  /\ nodePos[1] # activeDrag.nodes[1]
  /\ nodePos[1][1] - activeDrag.nodes[1][1] = nodePos[2][1] - activeDrag.nodes[2][1]
  /\ nodePos[1][2] - activeDrag.nodes[1][2] = nodePos[2][2] - activeDrag.nodes[2][2]


(* ====================================================================== *)
(* The tab list.                                                          *)
(* ====================================================================== *)

(* C11: an open request for a source path that some tab already holds      *)
(* activates that tab (the first one holding the path), issues no file     *)
(* read and leaves the tab list as long as it was, with the same ids and   *)
(* paths; and when a read completes well for a path that no tab holds,     *)
(* exactly one tab holds the path afterwards, so that a second request     *)
(* made after the first has completed finds that one tab.                  *)
C11_OpenExistingActivates ==
  [][/\ (/\ ev'.type = "open-path"
         /\ \E i \in 1..Len(tabs) : tabs[i].sourcePath = ev'.x)
        => (/\ \E i \in 1..Len(tabs) :
                 /\ tabs[i].sourcePath = ev'.x
                 /\ \A j \in 1..(i - 1) : tabs[j].sourcePath # ev'.x
                 /\ activeTabId' = tabs[i].id
            /\ reads' = reads
            /\ opened' = opened
            /\ Len(tabs') = Len(tabs)
            /\ \A i \in 1..Len(tabs) :
                 /\ tabs'[i].id = tabs[i].id
                 /\ tabs'[i].sourcePath = tabs[i].sourcePath)
     /\ (/\ ev'.type = "read-done"
         /\ ev'.button = 1
         /\ \A i \in 1..Len(tabs) : tabs[i].sourcePath # ev'.x)
        => Cardinality({i \in 1..Len(tabs') : tabs'[i].sourcePath = ev'.x}) = 1]_vars

(* with two tabs open and the second one active, the path of the first has *)
(* just been requested again: the first tab is active, nothing is read     *)
C11_Witness ==
  /\ ev.type = "open-path"
  /\ Len(tabs) = 2
  /\ tabs[1].sourcePath = ev.x
  /\ tabs[2].sourcePath # ev.x
  /\ ev.activeTab = tabs[2].id
  /\ activeTabId = tabs[1].id
  /\ \A q \in TabPaths : reads[q] = 0

(* C12 as stated: in every reachable state no two open tabs have the same  *)
(* source path, open requests that overlap their file reads included.      *)
C12_NoDuplicateSourcePaths ==
  \A i, j \in 1..Len(tabs) : tabs[i].sourcePath = tabs[j].sourcePath => i = j

(* C13: in every state between two operations the active tab id is null    *)
(* exactly when the tab list is empty, and otherwise is the id of exactly  *)
(* one tab of the list.                                                    *)
C13_ActiveTabValid ==
  /\ activeTabId = 0 <=> Len(tabs) = 0
  /\ Len(tabs) > 0 => Cardinality({i \in 1..Len(tabs) : tabs[i].id = activeTabId}) = 1

(* the active one of two tabs has just been closed: the other is active *)
C13_Witness ==
  /\ ev.type = "close-tab"
  /\ ev.activeTab = ev.x
  /\ Len(tabs) = 1
  /\ tabs[1].id # ev.x
  /\ activeTabId = tabs[1].id

(* C14: when the loader's payload for an open request is a failure, the    *)
(* request changes nothing but the status message: issuing the read sets   *)
(* the status to "Loading", the failure sets it to "Error", and the tab    *)
(* list (with every tab's saved view), the active tab id, the viewport,    *)
(* the graph and the side panel are as they were; no tab is created.       *)
C14_LoadFailureChangesStatusOnly ==
  [][/\ (/\ ev'.type = "read-done"
         /\ ev'.button = 0)
        => (/\ status' = [kind |-> "Error", path |-> ev'.x]
            /\ UNCHANGED <<tabs, activeTabId, opened, viewVars, graphVars, panelVars>>)
     /\ (/\ ev'.type = "open-path"
         /\ \A i \in 1..Len(tabs) : tabs[i].sourcePath # ev'.x)
        => (/\ status' = [kind |-> "Loading", path |-> ev'.x]
            /\ UNCHANGED <<tabs, activeTabId, opened, viewVars, graphVars,
                            panelVars>>)]_vars

(* a load has just failed while a tab with a zoomed view is open: the tab  *)
(* is still the only one, still active, its view still the viewport        *)
C14_Witness ==
  /\ ev.type = "read-done"
  /\ ev.button = 0
  /\ status.kind = "Error"
  /\ Len(tabs) = 1
  /\ tabs[1].sourcePath # ev.x
  /\ activeTabId = tabs[1].id
  /\ dsScale = 2
  /\ tabs[1].view = [offset |-> dsOffset, scale |-> dsScale]

(* C15: when the active tab changes, the tab that is left (if it stays     *)
(* open) keeps the viewport's offset and scale of that moment as its saved *)
(* view; no step changes the saved view of a tab that is not active;       *)
(* and the tab that becomes active gets its saved view as the viewport,    *)
(* or, when it has none yet, the fitted view, which becomes its saved      *)
(* view.  So leaving A for B and coming back restores A's viewport.        *)
C15_SwitchRestoresView ==
  [][/\ \A i \in 1..Len(tabs), j \in 1..Len(tabs') :
          (tabs[i].id = tabs'[j].id /\ tabs[i].id # activeTabId' /\
           activeTabId # tabs[i].id)
            => tabs'[j].view = tabs[i].view
     /\ \A i \in 1..Len(tabs), j \in 1..Len(tabs') :
          (tabs[i].id = tabs'[j].id /\ tabs[i].id = activeTabId /\
           activeTabId' # activeTabId)
            => tabs'[j].view = [offset |-> dsOffset, scale |-> dsScale]
     /\ \A j \in 1..Len(tabs') :
          (tabs'[j].id = activeTabId' /\ activeTabId' # activeTabId)
            => LET before == {i \in 1..Len(tabs) : tabs[i].id = activeTabId'}
                   saved == IF before = {} THEN Null
                            ELSE tabs[CHOOSE i \in before : TRUE].view
                   view == IF saved = Null THEN [offset |-> <<0, 0>>, scale |-> 1]
                           ELSE saved
               IN /\ dsOffset' = view.offset
                  /\ dsScale' = view.scale
                  /\ tabs'[j].view = view]_vars

(* the first of two tabs, zoomed before it was left, has just been         *)
(* activated again from the second: the viewport is its saved view, at     *)
(* scale 2, while the second tab keeps its own view                        *)
C15_Witness ==
  /\ ev.type \in {"tab-click", "cycle-tab"}
  /\ Len(tabs) = 2
  /\ ev.activeTab = tabs[2].id
  /\ activeTabId = tabs[1].id
  /\ dsScale = 2
  /\ tabs[1].view = [offset |-> dsOffset, scale |-> dsScale]
  /\ tabs[2].view # Null
  /\ tabs[2].view.scale = 1

(* ====================================================================== *)
(* The overlay sync loop.                                                 *)
(* ====================================================================== *)

(* C16: a tick that runs while the loop is stopped returns without         *)
(* requesting another frame and without touching the overlay; so whenever  *)
(* the overlay is hidden, eventually no tick callback is pending, unless   *)
(* the overlay is shown again first.                                       *)
C16_HiddenLoopStops ==
  /\ [][(ev'.type = "frame" /\ ~overlaySyncRunning)
         => (/\ overlayTicks' = 0
             /\ UNCHANGED <<selectedNode, nodeOverlayVisible, overlaySyncRunning,
                             overlayLayout, lastOverlayLayout, details>>)]_vars
  /\ (~nodeOverlayVisible ~> (overlayTicks = 0 \/ nodeOverlayVisible))

(* the frame after the overlay of a node was hidden has just run: the loop *)
(* is stopped and nothing is pending any more                              *)
C16_Witness ==
  /\ ev.type = "frame"
  /\ opened > 0
  /\ ~nodeOverlayVisible
  /\ ~overlaySyncRunning
  /\ overlayTicks = 0

(* C17: in every state the loop's running flag is set exactly when the     *)
(* overlay is visible; and while an overlay item is being interacted with, *)
(* a tick leaves the geometry applied to the overlay as it is, and so does *)
(* every other handler that calls updateNodeOverlay (it applies no new     *)
(* geometry: the applied geometry is the same or has been forgotten).      *)
C17_SyncWhileVisibleNotInteracting ==
  /\ [](overlaySyncRunning <=> nodeOverlayVisible)
  /\ [][overlayInteracting
         => (/\ ev'.type = "frame" => lastOverlayLayout' = lastOverlayLayout
             /\ lastOverlayLayout' \in {lastOverlayLayout, Null})]_vars

(* a tick has just run during an interaction with an overlay item, after   *)
(* the view changed: the overlay keeps the geometry applied before, which  *)
(* is no longer the one computed from the view                             *)
C17_Witness ==
  /\ ev.type = "frame"
  /\ overlayInteracting
  /\ nodeOverlayVisible
  /\ overlaySyncRunning
  /\ selectedNode \in DOMAIN nodePos
  /\ lastOverlayLayout # Null
  /\ lastOverlayLayout # ComputeOverlayLayout(selectedNode, nodePos, dsOffset, dsScale)

(* ====================================================================== *)
(* Type colors.                                                           *)
(* ====================================================================== *)

C19_RegistryEntriesKept ==
  [][\A key \in DOMAIN link_type_colors :
       /\ key \in DOMAIN link_type_colors'
       /\ link_type_colors'[key] = link_type_colors[key]]_vars

(* ---------------------------------------------------------------------- *)
(* C20: every item of the parameter list of a node, whether it comes from *)
(* a property or from a widget value, is multiline when its label is the  *)
(* long text field 'text' or its raw value is a string holding a line     *)
(* break, and inline otherwise.  As stated: an item that comes from a     *)
(* property is inline whatever its label and its value are.               *)
(* ---------------------------------------------------------------------- *)
C20_EveryItemKindByLabelOrLineBreak ==
  \A i \in 1..Len(viewerParams) :
    viewerParams[i].kind =
      IF viewerParams[i].label = TEXT_LABEL
         \/ (viewerParams[i].value.type = "string"
             /\ Includes(viewerParams[i].value.text, 10))
      THEN "multiline" ELSE "inline"

(* C20, amended: the items that come from the properties are the first of *)
(* the list and are inline; an item that comes from a widget value is     *)
(* multiline when its label is 'text' or its raw value is a string        *)
(* holding a line break, and inline otherwise.                            *)
C20_WidgetItemKindByLabelOrLineBreak ==
  /\ PropertyItemCount(viewerNode) <= Len(viewerParams)
  /\ \A i \in 1..Len(viewerParams) :
       IF i <= PropertyItemCount(viewerNode)
       THEN /\ viewerParams[i].label \in DOMAIN viewerNode.properties
            /\ viewerParams[i].kind = "inline"
       ELSE viewerParams[i].kind =
              IF viewerParams[i].label = TEXT_LABEL
                 \/ (viewerParams[i].value.type = "string"
                     /\ Includes(viewerParams[i].value.text, 10))
              THEN "multiline" ELSE "inline"

(* a decorated node with a property 'text' whose value holds a line break, *)
(* a widget value under the label 'text' that is a number, and a second    *)
(* widget value: one multiline by its value or one inline                  *)
C20_Witness ==
  /\ ev.type = "install-params"
  /\ TEXT_LABEL \in DOMAIN viewerNode.properties
  /\ Includes(viewerNode.properties[TEXT_LABEL].text, 10)
  /\ Len(viewerParams) = PropertyItemCount(viewerNode) + 2
  /\ viewerParams[PropertyItemCount(viewerNode) + 1].label = TEXT_LABEL
  /\ viewerParams[PropertyItemCount(viewerNode) + 1].value.type = "number"
  /\ viewerParams[PropertyItemCount(viewerNode) + 1].kind = "multiline"
  /\ viewerParams[PropertyItemCount(viewerNode) + 2].label = <<119, 49>>
  /\ viewerParams[PropertyItemCount(viewerNode) + 2].kind = "inline"

(* ---------------------------------------------------------------------- *)
(* C21: the parameter list of a node holds the property items first, in   *)
(* ascending key order (the order of localeCompare) and without the key   *)
(* 'Node name for S&R', then the widget items in the order of their       *)
(* positions; the item of widget i carries the value at index i and the   *)
(* label at index i of the label table of the node's type, or 'w<i>' when *)
(* the table has no such entry; a widget whose label is 'upload' (or any  *)
(* other control of the interface) has no item, and the labels of the     *)
(* other widgets are those of their own positions.                        *)
(* ---------------------------------------------------------------------- *)
C21_PropertiesThenWidgetsInOrder ==
  LET keys == DOMAIN viewerNode.properties \ {NODE_NAME_KEY}
      count == Cardinality(keys)
      values == viewerNode.widgets_values
      table == COMFY_WIDGET_LABELS(viewerNode.type)
      labelAt(i) == IF i < Len(table) THEN table[i + 1] ELSE <<119>> \o Digits(i)
      controls == {<<117, 112, 108, 111, 97, 100>>,
                   <<99, 104, 111, 111, 115, 101, 32, 102, 105, 108, 101>>,
                   <<111, 112, 101, 110>>,
                   <<98, 117, 116, 116, 111, 110>>}
      kept == {i \in 0..(Len(values) - 1) : labelAt(i) \notin controls}
      place(i) == count + Cardinality({k \in kept : k <= i})
  IN /\ Len(viewerParams) = count + Cardinality(kept)
     /\ {viewerParams[j].label : j \in 1..count} = keys
     /\ \A j \in 1..count :
          /\ viewerParams[j].value = viewerNode.properties[viewerParams[j].label]
          /\ j < count => LocaleCompare(viewerParams[j].label, viewerParams[j + 1].label) < 0
     /\ \A i \in kept :
          /\ viewerParams[place(i)].label = labelAt(i)
          /\ viewerParams[place(i)].value = values[i + 1]

(* a decorated LoadImage node with the three property keys and three      *)
(* widget values: the items are seed, text, image and w2                   *)
C21_Witness ==
  /\ ev.type = "install-params"
  /\ viewerNode.type = "LoadImage"
  /\ DOMAIN viewerNode.properties = PropKeys
  /\ Len(viewerNode.widgets_values) = 3
  /\ viewerNode.widgets_values[1] # viewerNode.widgets_values[3]
  /\ Len(viewerParams) = 4
  /\ viewerParams[1].label = <<115, 101, 101, 100>>
  /\ viewerParams[2].label = TEXT_LABEL
  /\ viewerParams[3].label = <<105, 109, 97, 103, 101>>
  /\ viewerParams[4].label = <<119, 50>>
  /\ viewerParams[4].value = viewerNode.widgets_values[3]

(* ---------------------------------------------------------------------- *)
(* C22: the parameter list of a node with no properties and no widget     *)
(* values is empty, whatever the type of the node; when such a node is    *)
(* selected, the overlay is hidden, the sync loop is not running, no      *)
(* overlay layout is kept and no parameter box is drawn on the node.      *)
(* ---------------------------------------------------------------------- *)
C22_NoParamsNoOverlay ==
  /\ [](\A t \in NodeTypes :
          LET bare == [type |-> t, properties |-> NoProperties, widgets_values |-> <<>>]
          IN /\ buildViewerParams(bare) = <<>>
             /\ DrawnParamBoxes(buildViewerParams(bare)) = 0)
  /\ [][(/\ selectedNode' # NoNode
         /\ selectedNode' # selectedNode
         /\ WorkflowNode(selectedNode').properties = NoProperties
         /\ WorkflowNode(selectedNode').widgets_values = <<>>)
        => /\ ~nodeOverlayVisible'
           /\ ~overlaySyncRunning'
           /\ overlayLayout' = FALSE
           /\ lastOverlayLayout' = Null
           /\ DrawnParamBoxes(buildViewerParams(WorkflowNode(selectedNode'))) = 0]_vars

(* node 2, which has no properties and no widget values, selected by a    *)
(* press made while the overlay of node 1 was visible                     *)
C22_Witness ==
  /\ ev.type = "pointerdown"
  /\ ev.selectedNode = 1
  /\ selectedNode = 2
  /\ WorkflowNode(2).properties = NoProperties
  /\ WorkflowNode(2).widgets_values = <<>>
  /\ ~nodeOverlayVisible

(* ---------------------------------------------------------------------- *)
(* C23: after a zoom operation (a wheel event with a nonzero deltaY, the   *)
(* zoom-in command, the zoom-out command) from any scale, the scale asked  *)
(* of the engine lies within [0.1, 4]; a wheel event whose deltaY is 0     *)
(* changes nothing.                                                       *)
(* ---------------------------------------------------------------------- *)
C23_RequestedScaleInRange ==
  [][/\ ((ev'.type = "zoom-wheel" /\ ev'.x # 0) \/ ev'.type \in {"zoom-in", "zoom-out"})
        => /\ zoomRequested' # Null
           /\ ~LessThanMin(zoomRequested')
           /\ ~GreaterThanMax(zoomRequested')
     /\ (ev'.type = "zoom-wheel" /\ ev'.x = 0)
        => /\ UNCHANGED zoomVars
           /\ UNCHANGED <<viewVars, tabVars>>]_vars

(* a wheel event that zooms out from a scale below 0.1 set by the engine:  *)
(* the scale asked for is the lower limit                                  *)
C23_Witness ==
  /\ ev.type = "zoom-wheel"
  /\ ev.x = 60
  /\ zoomTrail = <<[from |-> [base |-> "one", exp |-> 0 - 14], exp |-> 0 - 1]>>
  /\ zoomRequested = MinZoomScale

(* ---------------------------------------------------------------------- *)
(* C24: from every scale within [0.1, 4], a zoom in by one wheel notch     *)
(* followed by a zoom out by the inverse factor gives the scale back.  As  *)
(* stated: from a scale above 4 / 1.22 the zoom in stops at 4 and the      *)
(* zoom out ends at 4 / 1.22.                                              *)
(* ---------------------------------------------------------------------- *)
C24_ZoomInThenOutRestores ==
  (/\ Len(zoomTrail) = 2
   /\ zoomTrail[1].exp = 1
   /\ zoomTrail[2].exp = 0 - zoomTrail[1].exp
   /\ ~LessThanMin(zoomTrail[1].from)
   /\ ~GreaterThanMax(zoomTrail[1].from))
  => zoomScale = zoomTrail[1].from

(* C24, amended: from every scale within [0.1, 4] whose product with the   *)
(* factor of the zoom in is at most 4, a zoom in by one notch or more      *)
(* followed by a zoom out by the inverse factor gives the scale back (in   *)
(* exact arithmetic).                                                      *)
C24_ZoomInThenOutRestoresBelowLimit ==
  (/\ Len(zoomTrail) = 2
   /\ zoomTrail[1].exp > 0
   /\ zoomTrail[2].exp = 0 - zoomTrail[1].exp
   /\ ~LessThanMin(zoomTrail[1].from)
   /\ ~GreaterThanMax(ScaleTimes(zoomTrail[1].from, zoomTrail[1].exp)))
  => zoomScale = zoomTrail[1].from

(* a wheel notch in, then the zoom-out command, from 0.1 * 1.22^3: the     *)
(* scale is 0.1 * 1.22^3 again                                             *)
C24_Witness ==
  /\ ev.type = "zoom-out"
  /\ Len(zoomTrail) = 2
  /\ zoomTrail[1] = [from |-> [base |-> "min", exp |-> 3], exp |-> 1]
  /\ zoomTrail[2] = [from |-> [base |-> "min", exp |-> 4], exp |-> 0 - 1]
  /\ zoomScale = [base |-> "min", exp |-> 3]

C27_AtMostOneTickChain == overlayTicks <= 1

(* ====================================================================== *)
(* Clicks, overlay presses and promotion across interrupted gestures.     *)
(* ====================================================================== *)

(* C28 as stated: a pointer-up performs the click-to-deselect only if the  *)
(* latest pointer-down of its pointer was a primary-button press on empty  *)
(* canvas space (no node, no group under it) with Space not held. Checked  *)
(* on a pointer-up that directly follows the pointer-down of its pointer:  *)
(* when that pointer-up finds the armed click candidate of its pointer     *)
(* (and so deselects), the press was such an empty-space press.            *)
C28_ClickOnlyAfterEmptyPress ==
  [][(/\ ev'.type = "pointerup"
      /\ ev.type = "pointerdown"
      /\ ev.pointerId = ev'.pointerId
      /\ emptyClickCandidate # Null
      /\ emptyClickCandidate.pointerId = ev'.pointerId)
     => LET c == ConvertEventToCanvasOffset(ev.x, ev.y, dsOffset, dsScale)
        IN /\ ev.button = 0
           /\ ~spaceDown
           /\ GetNodeOnPos(c, graphNodes, nodePos) = NoNode
           /\ ~GetGroupOnPos(c, graphHasGroup)]_vars

(* C29 as stated: overlayInteracting is true only while the pointer that   *)
(* went down on an overlay item is still pressed. After the release or the *)
(* cancel of that pointer, whichever element receives it (an overlay item, *)
(* the canvas, or an element outside both), after a window blur, and after *)
(* the overlay's items have been cleared or replaced, overlayInteracting   *)
(* is false.                                                              *)
C29_InteractingOnlyWhilePressed ==
  [][/\ (/\ ev.type = "overlay-pointerdown"
         /\ ev'.type \in {"overlay-pointerup", "overlay-pointercancel",
                          "pointerup", "pointercancel", "pointerup-elsewhere"}
         /\ ev'.pointerId = ev.pointerId)
        => ~overlayInteracting'
     /\ ev'.type = "blur" => ~overlayInteracting'
     /\ (\/ overlayLayout /\ ~overlayLayout'
         \/ selectedNode' \notin {selectedNode, NoNode})
        => ~overlayInteracting']_vars

(* C30: while overlayInteracting is true, a pointer-move of the drag       *)
(* candidate's pointer never promotes the candidate to an active drag,     *)
(* whatever the displacement: no drag becomes active and the candidate     *)
(* stays armed as it was.                                                  *)
C30_NoPromotionWhileInteracting ==
  [][(/\ overlayInteracting
      /\ dragCandidate # Null
      /\ ev'.type = "pointermove"
      /\ ev'.pointerId = dragCandidate.pointerId)
     => (/\ activeDrag' = activeDrag
         /\ dragCandidate' = dragCandidate)]_vars

(* the candidate's pointer has moved beyond the threshold while the flag   *)
(* was set: no drag is active and the candidate is still armed             *)
C30_Witness ==
  /\ ev.type = "pointermove"
  /\ overlayInteracting
  /\ dragCandidate # Null
  /\ ev.pointerId = dragCandidate.pointerId
  /\ DistSq(ev.x, ev.y, dragCandidate.startX, dragCandidate.startY)
       > DRAG_THRESHOLD_SQ
  /\ activeDrag = Null

(* ====================================================================== *)
(* Several pointers, the two gesture records, the cursor.                 *)
(* ====================================================================== *)

(* C31 as stated: a pointer-down, pointer-move, pointer-up or              *)
(* pointer-cancel of one pointer never removes, replaces or alters the     *)
(* drag candidate or the active drag that another pointer owns.            *)
C31_OtherPointersRecordsKept ==
  [][ev'.type \in {"pointerdown", "pointermove", "pointerup", "pointercancel"}
     => /\ (dragCandidate # Null /\ dragCandidate.pointerId # ev'.pointerId)
             => dragCandidate' = dragCandidate
        /\ (activeDrag # Null /\ activeDrag.pointerId # ev'.pointerId)
             => activeDrag' = activeDrag]_vars

(* C32: in every reachable state a drag candidate and an active drag do    *)
(* not exist together: a press arms a candidate only when no drag is       *)
(* active, and whatever creates an active drag clears the candidate.       *)
C32_CandidateAndDragExclusive ==
  /\ [](~(dragCandidate # Null /\ activeDrag # Null))
  /\ [][/\ (dragCandidate = Null /\ dragCandidate' # Null) => activeDrag = Null
        /\ (activeDrag = Null /\ activeDrag' # Null) => dragCandidate' = Null]_vars

(* a drag is active and another pointer has just pressed the primary      *)
(* button on empty space without Space held: no candidate was armed       *)
C32_Witness ==
  /\ ev.type = "pointerdown"
  /\ ev.button = 0
  /\ ~spaceDown
  /\ ev.x = 0 /\ ev.y = 0
  /\ activeDrag # Null
  /\ activeDrag.pointerId # ev.pointerId
  /\ ev.dragOwner = activeDrag.pointerId
  /\ dragCandidate = Null

(* C33 as stated: whenever no tab is active, no node is recorded as        *)
(* selected, the overlay is hidden and the overlay-sync loop is not        *)
(* running.                                                               *)
C33_NoTabNoSelection ==
  activeTabId = 0
    => /\ selectedNode = NoNode
       /\ ~nodeOverlayVisible
       /\ ~overlaySyncRunning

(* C34: after every event handler the canvas cursor is determined by the   *)
(* gesture state alone: 'grabbing' exactly when a pan is active, 'move'    *)
(* exactly when a node drag is active, 'grab' exactly when no drag is      *)
(* active and Space is held, and the default cursor otherwise; pressing or *)
(* releasing Space never starts, ends or alters a drag, a drag candidate   *)
(* or an empty-click candidate.                                           *)
C34_CursorFollowsGestureState ==
  /\ [](/\ cursor = "grabbing" <=> activeDrag.mode = "pan"
        /\ cursor = "move" <=> activeDrag.mode = "node"
        /\ cursor = "grab" <=> (activeDrag = Null /\ spaceDown)
        /\ cursor = "" <=> (activeDrag = Null /\ ~spaceDown))
  /\ [][ev'.type \in {"keydown", "keyup"}
        => UNCHANGED <<activeDrag, dragCandidate, emptyClickCandidate>>]_vars

(* Space has been released while a pan was active: the cursor is still the *)
(* closed hand                                                            *)
C34_Witness ==
  /\ ev.type = "keyup"
  /\ ~spaceDown
  /\ activeDrag.mode = "pan"
  /\ cursor = "grabbing"

(* C35: when a node drag candidate is promoted, the drag that starts       *)
(* captures the position of every node selected at that moment, and of no  *)
(* other; when no node is selected then, a pan starts instead and captures *)
(* the current viewport offset; either way the move that promotes leaves   *)
(* exactly one active drag, owned by the candidate's pointer and starting  *)
(* where the candidate was armed, and no candidate.                        *)
C35_PromotionCapturesSelection ==
  [][(/\ dragCandidate.mode = "node"
      /\ activeDrag = Null
      /\ ~overlayInteracting
      /\ ev'.type = "pointermove"
      /\ ev'.pointerId = dragCandidate.pointerId
      /\ DistSq(ev'.x, ev'.y, dragCandidate.startX, dragCandidate.startY)
           > DRAG_THRESHOLD_SQ)
     => (/\ dragCandidate' = Null
         /\ activeDrag' # Null
         /\ activeDrag'.pointerId = dragCandidate.pointerId
         /\ activeDrag'.startX = dragCandidate.startX
         /\ activeDrag'.startY = dragCandidate.startY
         /\ IF selected_nodes # {}
            THEN /\ activeDrag'.mode = "node"
                 /\ DOMAIN activeDrag'.nodes = selected_nodes
                 /\ \A n \in selected_nodes : activeDrag'.nodes[n] = nodePos[n]
            ELSE /\ activeDrag'.mode = "pan"
                 /\ activeDrag'.offsetX = dsOffset[1]
                 /\ activeDrag'.offsetY = dsOffset[2])]_vars

(* a node candidate has just been promoted with two nodes selected: the    *)
(* drag holds the positions of both                                        *)
C35_Witness ==
  /\ ev.type = "pointermove"
  /\ ev.dragOwner = 0
  /\ ev.candOwner = ev.pointerId
  /\ activeDrag.mode = "node"
  /\ selected_nodes = {1, 2}
  /\ DOMAIN activeDrag.nodes = {1, 2}
  /\ dragCandidate = Null

(* ====================================================================== *)
(* Fit to content when the engine raises.                                 *)
(* ====================================================================== *)

(* C36: when the engine's fit-to-content raises, the fit command (and the  *)
(* fit button) still runs to its end: the viewport is at zoom scale 1 and  *)
(* offset (0, 0) afterwards, and that view is the saved view of the active *)
(* tab, if there is one.                                                  *)
C36_FitFailureResetsView ==
  [][(ev'.type = "cmd-fit" /\ ev'.x = 1)
     => (/\ dsOffset' = <<0, 0>>
         /\ dsScale' = 1
         /\ activeTabId' = activeTabId
         /\ activeTabId # 0
              => tabs'[IndexOf(tabs', activeTabId)].view
                   = [offset |-> <<0, 0>>, scale |-> 1])]_vars

(* fit-to-content has just raised with a tab active: the tab's saved view  *)
(* is the reset view                                                      *)
C36_Witness ==
  /\ ev.type = "cmd-fit"
  /\ ev.x = 1
  /\ ev.activeTab # 0
  /\ activeTabId = ev.activeTab
  /\ dsOffset = <<0, 0>>
  /\ dsScale = 1
  /\ tabs[IndexOf(tabs, activeTabId)].view = [offset |-> <<0, 0>>, scale |-> 1]

(* ====================================================================== *)
(* The type-color registry and the order of registrations.                *)
(* ====================================================================== *)

(* C37 as stated: the colors the registry ends with do not depend on the   *)
(* order of the registrations. Of two runs that share their registrations  *)
(* up to the current registry and then register the same two type names,   *)
(* one run in one order and the other run in the other order, both end     *)
(* with the same color for every key: registering a name T and then any    *)
(* name U gives the registry that registering U and then T gives.          *)
C37_RegistrationOrderIrrelevant ==
  [][ev'.type = "register-type"
     => \A j \in 1..Len(TypeNames) :
          EnsureTypeColors(link_type_colors', TypeNames[j])
            = EnsureTypeColors(EnsureTypeColors(link_type_colors, TypeNames[j]),
                               TypeNames[ev'.x])]_vars

(* ====================================================================== *)
(* The parameter boxes: canvas drawing, overlay layout, node height.      *)
(* ====================================================================== *)

(* C38: for every decorated node, the canvas draws as many parameter boxes *)
(* as buildOverlayLayout has items (the parameters up to the cap of 20),   *)
(* and box i has the vertical position startY + top, the width boxWidth    *)
(* and the height of item i, for inline and multiline items alike.         *)
C38_DrawnBoxesMatchLayout ==
  LET layout == buildOverlayLayout(viewerParams, viewerFrame)
      boxes == onDrawForeground(viewerParams, viewerFrame)
  IN viewerParams # <<>>
       => /\ Len(boxes) = Len(layout.items)
          /\ Len(boxes) = (IF Len(viewerParams) < 20 THEN Len(viewerParams) ELSE 20)
          /\ \A i \in 1..Len(boxes) :
               /\ boxes[i].ry = layout.startY + layout.items[i].top
               /\ boxes[i].rw = layout.boxWidth
               /\ boxes[i].rh = layout.items[i].height
               /\ layout.items[i].kind = viewerParams[i].kind

(* a node with 22 parameters, multiline and inline in turn, and two rows   *)
(* of slots has been decorated: 20 boxes, the second 130 below the first   *)
C38_Witness ==
  /\ ev.type = "install-params"
  /\ Len(viewerParams) = 22
  /\ viewerParams[1].kind = "multiline"
  /\ viewerParams[2].kind = "inline"
  /\ viewerFrame.inputs = 2
  /\ Len(onDrawForeground(viewerParams, viewerFrame)) = 20
  /\ onDrawForeground(viewerParams, viewerFrame)[1].ry = 48
  /\ onDrawForeground(viewerParams, viewerFrame)[2].ry = 178

(* C40: after a node with an array-valued size and at least one parameter  *)
(* has been decorated, its height is at least startY plus contentHeight of *)
(* its overlay layout, whatever its slots and its mix of inline and        *)
(* multiline parameters, and every parameter box drawn (at most 20) ends   *)
(* inside the node.                                                       *)
C40_NodeHoldsItsBoxes ==
  LET layout == buildOverlayLayout(viewerParams, viewerFrame)
      boxes == onDrawForeground(viewerParams, viewerFrame)
  IN (viewerFrame.size # NoSize /\ viewerParams # <<>>)
       => /\ viewerFrame.size.height >= layout.startY + layout.contentHeight
          /\ Len(boxes) <= 20
          /\ \A i \in 1..Len(boxes) :
               boxes[i].ry + boxes[i].rh <= viewerFrame.size.height

(* a node of height 0 with 22 multiline parameters, two inputs and one     *)
(* output has been decorated: it is 2660 high, its 20 boxes end at 2642    *)
C40_Witness ==
  /\ ev.type = "install-params"
  /\ Len(viewerParams) = 22
  /\ \A i \in 1..22 : viewerParams[i].kind = "multiline"
  /\ viewerFrame.inputs = 2
  /\ viewerFrame.outputs = 1
  /\ viewerFrame.size # NoSize
  /\ viewerFrame.size.height = 2660

(* ====================================================================== *)
(* Closing a tab while others remain.                                     *)
(* ====================================================================== *)

(* C39: closing the active tab while other tabs remain activates the tab   *)
(* that was its right neighbour, or the tab that was its left neighbour    *)
(* (the new last tab) when it was the last; closing a tab that is not      *)
(* active leaves the active tab id, the viewport and the recorded selected *)
(* node unchanged; either way the other tabs stay in their order.          *)
C39_CloseActivatesNeighbour ==
  [][\A c \in 1..MaxClosable :
       (/\ \/ ev'.type = "close-tab" /\ ev'.x = c
           \/ ev'.type = "cmd-close-tab" /\ activeTabId = c
        /\ c \in TabIds(tabs)
        /\ Len(tabs) > 1)
       => LET index == CHOOSE i \in 1..Len(tabs) : tabs[i].id = c
          IN /\ Len(tabs') = Len(tabs) - 1
             /\ \A i \in 1..Len(tabs') :
                  /\ tabs'[i].id = tabs[IF i < index THEN i ELSE i + 1].id
                  /\ tabs'[i].sourcePath = tabs[IF i < index THEN i ELSE i + 1].sourcePath
             /\ IF c = activeTabId
                THEN activeTabId' = IF index < Len(tabs) THEN tabs[index + 1].id
                                    ELSE tabs[index - 1].id
                ELSE /\ activeTabId' = activeTabId
                     /\ UNCHANGED <<dsOffset, dsScale, selectedNode>>]_vars

(* the middle one of three tabs was active and has been closed by its      *)
(* button: its former right neighbour is active                           *)
C39_Witness ==
  /\ ev.type = "close-tab"
  /\ ev.activeTab = ev.x
  /\ Len(tabs) = 2
  /\ tabs[1].id < ev.x
  /\ ev.x < tabs[2].id
  /\ activeTabId = tabs[2].id

====
